---- MODULE Spec2Model ----
(***************************************************************************)
(* Hospital management system: the entity store (db_operator.py), the      *)
(* request schemas (schemas.py) and the menu handlers (main_cli.py).       *)
(*                                                                         *)
(* The storage collaborator (the SQLAlchemy session of database.py) is     *)
(* modelled by its contract as the code uses it: every table is a keyed    *)
(* map from primary key to row, add + commit inserts a row under a fresh   *)
(* identity value, delete + commit removes a row, commit after setattr     *)
(* stores the changed row, query(...).filter(pk == id).first() is a        *)
(* lookup.  The flush of a delete blanks the foreign key of the children   *)
(* that a relationship() of models.py ties to the deleted row.  The store  *)
(* checks nothing about the rows it is given, but for the length of a      *)
(* medication name.                                                        *)
(*                                                                         *)
(* Every handler runs to completion before the next one starts (one        *)
(* operator, one session), so a handler is one action.  `ret` records how  *)
(* the last call ended: its name, its arguments, its local variables that  *)
(* the properties read, the value it returned and the exception it raised. *)
(***************************************************************************)
EXTENDS Integers, Sequences, FiniteSets, TLC

VARIABLES
    db,      \* the tables: table name -> (primary key -> row)
    ident,   \* table name -> last identity value handed out by the table
    now,     \* the wall clock read by datetime.now(), in half seconds
    ret      \* the last call and its outcome

vars == <<db, ident, now, ret>>

-----------------------------------------------------------------------------
(* Bounds of the model *)

NumBeds == 2      \* beds provisioned before the session starts
MaxRows == 2      \* rows a table ever receives (identity values 1..MaxRows)
MaxClock == 4     \* the last clock value of a run

-----------------------------------------------------------------------------
(* Values *)

\* Python's None as a returned object (Optional[Row])
None == [None |-> TRUE]

\* a NULL column / a None attribute of integer or datetime type
NULL == -1

\* a None attribute of string type
NoStr == "None"

TableNames == {"Doctors", "Staff", "StaffShifts", "Patients", "Test_Records",
               "Appointments", "MedicalHistory", "Beds", "Prescriptions",
               "Prescription_Details", "Notifications"}

\* the name of the primary-key column of each table
PK == [Doctors |-> "Doc_ID", Staff |-> "Staff_ID", StaffShifts |-> "Shift_ID",
       Patients |-> "Patient_ID", Test_Records |-> "Record_ID",
       Appointments |-> "Appointment_ID", MedicalHistory |-> "History_ID",
       Beds |-> "Bed_ID", Prescriptions |-> "Prescription_ID",
       Prescription_Details |-> "Detail_ID", Notifications |-> "Notification_ID"]

\* the columns of each table
Columns ==
    [Doctors |-> {"Doc_ID", "Doc_Name", "Speciality", "Phone_Num", "Email"},
     Staff |-> {"Staff_ID", "Name", "Department", "Email", "Hire_Date"},
     StaffShifts |-> {"Shift_ID", "Staff_ID", "Shift_Start", "Shift_End"},
     Patients |-> {"Patient_ID", "Patient_Name", "Patient_Records", "Phone_Num",
                   "Email", "Doc_ID", "Staff_ID"},
     Test_Records |-> {"Record_ID", "Patient_ID", "Record_Name", "Test_Date",
                       "Remarks"},
     Appointments |-> {"Appointment_ID", "Patient_ID", "Doc_ID",
                       "Appointment_Date", "Statusof", "Typeof", "Speciality",
                       "Notes"},
     MedicalHistory |-> {"History_ID", "Patient_ID", "Doc_ID", "Diagnosis",
                         "Treatment", "Record_Date"},
     Beds |-> {"Bed_ID", "Ward_ID", "Patient_ID", "Status", "Assigned_Date"},
     Prescriptions |-> {"Prescription_ID", "Patient_ID", "Doctor_ID",
                        "Date_Issued", "Notes"},
     Prescription_Details |-> {"Detail_ID", "Prescription_ID", "Medication_Name",
                               "Dosage", "Frequency", "Duration"},
     Notifications |-> {"Notification_ID", "Recipient_Type", "Recipient_ID",
                        "Message", "Status", "Created_At", "Read_At"}]

\* models.py: the one-to-many relationship() declarations (with their
\* back_populates / backref side): the parent table, the child table and the
\* foreign-key column of the child.  None of them declares a cascade.
Relationships ==
    {[parent |-> "Doctors", child |-> "Patients", fk |-> "Doc_ID"],
     [parent |-> "Doctors", child |-> "Appointments", fk |-> "Doc_ID"],
     [parent |-> "Doctors", child |-> "MedicalHistory", fk |-> "Doc_ID"],
     [parent |-> "Staff", child |-> "Patients", fk |-> "Staff_ID"],
     [parent |-> "Staff", child |-> "StaffShifts", fk |-> "Staff_ID"],
     [parent |-> "Patients", child |-> "Test_Records", fk |-> "Patient_ID"],
     [parent |-> "Patients", child |-> "Appointments", fk |-> "Patient_ID"],
     [parent |-> "Patients", child |-> "MedicalHistory", fk |-> "Patient_ID"],
     [parent |-> "Patients", child |-> "Beds", fk |-> "Patient_ID"],
     [parent |-> "Prescriptions", child |-> "Prescription_Details",
      fk |-> "Prescription_ID"]}

\* models.py: the columns declared Column(String); the others are Integer and
\* DateTime columns
StringColumns ==
    {"Doc_Name", "Speciality", "Phone_Num", "Email", "Name", "Department",
     "Shift_End", "Patient_Name", "Patient_Records", "Record_Name", "Remarks",
     "Statusof", "Typeof", "Notes", "Diagnosis", "Treatment", "Status",
     "Medication_Name", "Dosage", "Frequency", "Duration", "Recipient_Type",
     "Message"}

\* schemas.py: the fields declared str, Optional[str] or EmailStr; the others
\* are int and datetime fields.  Shift_End is a datetime and Statusof an int
\* in the schemas.
StrFields == StringColumns \ {"Shift_End", "Statusof"}

\* the value a column takes when the constructor is not given it
ColumnDefault(t, c) ==
    CASE t = "Beds" /\ c = "Status" -> "Available"
      [] t = "Notifications" /\ c = "Status" -> "Unread"
      [] t \in {"Notifications"} /\ c = "Created_At" -> now
      [] t \in {"Prescriptions"} /\ c = "Date_Issued" -> now
      [] c \in StrFields -> NoStr
      [] OTHER -> NULL

\* the attribute read back from column c after v was written to it: a String
\* column hands back text, whatever was bound to it
ColumnValue(c, v) ==
    IF c \in StringColumns \ StrFields
    THEN IF v = NULL THEN NoStr ELSE ToString(v)
    ELSE v

-----------------------------------------------------------------------------
(* The session: what db.query / db.add / db.delete / db.commit do *)

\* db.query(T).filter(T.pk == id).first()
First(d, t, id) == IF id \in DOMAIN d[t] THEN d[t][id] ELSE None

\* db.query(T).filter(T.c1 == v1, ...).all(), as the set of the rows returned;
\* by is the record of the compared columns and their values
All(d, t, by) ==
    {d[t][k] : k \in {i \in DOMAIN d[t] : \A c \in DOMAIN by : d[t][i][c] = by[c]}}

\* query.first() on a filter that is no primary key, without ORDER BY: None
\* when no row matches, else whichever matching row the database hands back
\* first; rows is the set of the matching rows
FirstOf(rows) == IF rows = {} THEN {None} ELSE rows

TypeError == [TypeError |-> TRUE]

\* T(data): the mapped object built from keyword arguments; a keyword that
\* is no attribute of T raises TypeError
Construct(t, data) ==
    IF DOMAIN data \subseteq Columns[t]
    THEN [c \in Columns[t] |->
             IF c \in DOMAIN data THEN data[c] ELSE ColumnDefault(t, c)]
    ELSE TypeError

\* db.add(obj); db.commit(); db.refresh(obj): the row is stored under the
\* next identity value of its table and its columns are read back
AddCommit(d, idn, t, obj) ==
    LET id == idn[t] + 1
        row == [c \in Columns[t] |->
                   IF c = PK[t] THEN id ELSE ColumnValue(c, obj[c])]
    IN [db |-> [d EXCEPT ![t] = [k \in DOMAIN d[t] \cup {id} |->
                                    IF k = id THEN row ELSE d[t][k]]],
        ident |-> [idn EXCEPT ![t] = id],
        result |-> row,
        raised |-> "",
        commits |-> 1]

\* mutant of SetattrCommit: a None value is skipped (if value: setattr(...))
SetattrCommit_SkipNone(d, t, id, data) ==
    LET old == d[t][id]
        isNone(c) == IF c \in StrFields THEN data[c] = NoStr ELSE data[c] = NULL
        row == [c \in Columns[t] |->
                   IF c \in DOMAIN data /\ ~isNone(c)
                   THEN ColumnValue(c, data[c]) ELSE old[c]]
    IN [db |-> [d EXCEPT ![t] = [k \in DOMAIN d[t] |->
                                    IF k = id THEN row ELSE d[t][k]]],
        result |-> row,
        raised |-> "",
        commits |-> 1]

\* for key, value in data.items(): setattr(row, key, value); db.commit();
\* db.refresh(row).  Only mapped columns reach the table, and the written
\* columns are read back.
SetattrCommit(d, t, id, data) ==
    LET old == d[t][id]
        row == [c \in Columns[t] |->
                   IF c \in DOMAIN data THEN ColumnValue(c, data[c]) ELSE old[c]]
    IN [db |-> [d EXCEPT ![t] = [k \in DOMAIN d[t] |->
                                    IF k = id THEN row ELSE d[t][k]]],
        result |-> row,
        raised |-> "",
        commits |-> 1]

\* mutant of DeleteCommit: the delete is issued without the primary-key filter
DeleteCommit_Truncate(d, t, id) ==
    [db |-> [d EXCEPT ![t] = <<>>],
     result |-> d[t][id],
     raised |-> "",
     commits |-> 1]

\* db.delete(row); db.commit(): the flush removes the row and, for every
\* relationship the row is the parent of (none declares a delete cascade),
\* loads the children and blanks their foreign key
DeleteCommit(d, t, id) ==
    LET blanked(u, row) ==
            {r.fk : r \in {x \in Relationships :
                              x.parent = t /\ x.child = u /\ row[x.fk] = id}}
    IN [db |-> [u \in DOMAIN d |->
                   IF u = t
                   THEN [k \in DOMAIN d[t] \ {id} |-> d[t][k]]
                   ELSE [k \in DOMAIN d[u] |->
                            [c \in DOMAIN d[u][k] |->
                                IF c \in blanked(u, d[u][k])
                                THEN NULL ELSE d[u][k][c]]]],
        result |-> d[t][id],
        raised |-> "",
        commits |-> 1]

\* mutant of Untouched: the lookup is made with query.one(), which raises
\* when no row matches
Untouched_Raises(d, v) ==
    [db |-> d, result |-> v, raised |-> "NoResultFound", commits |-> 0]

\* a call that touched nothing and returned v
Untouched(d, v) == [db |-> d, result |-> v, raised |-> "", commits |-> 0]

\* a call that ended in the exception e before any commit
Raised(d, e) == [db |-> d, result |-> None, raised |-> e, commits |-> 0]

\* datetime.now().strftime('%Y-%m-%d %H:%M:%S') parsed back by the schema:
\* the clock cut to whole seconds (the clock counts half seconds)
strftime(t) == t - (t % 2)

-----------------------------------------------------------------------------
\* schemas.py: pydantic models.  Building a model from keyword arguments keeps
\* the declared fields, fills an omitted optional field with its default,
\* ignores a keyword that is not declared and raises ValidationError when a
\* required field is missing or a value cannot be read as the declared type (an
\* empty string for an int).  .dict() is the record of all declared fields.

ValidationError == [ValidationError |-> TRUE]

\* a schema that declares no optional field
NoDefaults == <<>>

\* an empty line typed at an input() prompt where a number is expected
BLANK == -2

\* required: fields without default; defaults: the optional fields; typed:
\* the int and datetime fields
BaseModel(required, defaults, typed, kw) ==
    IF /\ required \subseteq DOMAIN kw
       /\ \A f \in typed \cap DOMAIN kw : kw[f] # BLANK
    THEN [f \in required \cup DOMAIN defaults |->
             IF f \in DOMAIN kw THEN kw[f] ELSE defaults[f]]
    ELSE ValidationError

\* mutant of BedBase: the schema lacks the Assigned_Date field
BedBase_NoAssignedDate(kw) ==
    BaseModel({"Bed_ID", "Ward_ID", "Status"}, [Patient_ID |-> NULL],
              {"Bed_ID", "Ward_ID", "Patient_ID"}, kw)

BedBase(kw) ==
    BaseModel({"Bed_ID", "Ward_ID", "Status"},
              [Patient_ID |-> NULL, Assigned_Date |-> NULL],
              {"Bed_ID", "Ward_ID", "Patient_ID", "Assigned_Date"}, kw)

PatientBase(kw) ==
    BaseModel({"Patient_Name", "Patient_Records", "Email"},
              [Phone_Num |-> NoStr, Doc_ID |-> NULL, Staff_ID |-> NULL],
              {"Doc_ID", "Staff_ID"}, kw)

PatientCreate(kw) == PatientBase(kw)

DoctorBase(kw) ==
    BaseModel({"Doc_Name", "Speciality", "Email"}, [Phone_Num |-> NoStr], {}, kw)

DoctorCreate(kw) == DoctorBase(kw)

StaffBase(kw) ==
    BaseModel({"Name", "Department", "Email", "Hire_Date"}, NoDefaults,
              {"Hire_Date"}, kw)

StaffCreate(kw) == StaffBase(kw)

StaffShiftBase(kw) ==
    BaseModel({"Staff_ID", "Shift_Start", "Shift_End"}, NoDefaults,
              {"Staff_ID", "Shift_Start", "Shift_End"}, kw)

StaffShiftCreate(kw) == StaffShiftBase(kw)

TestRecordBase(kw) ==
    BaseModel({"Patient_ID"},
              [Record_Name |-> NoStr, Test_Date |-> NULL, Remarks |-> NoStr],
              {"Patient_ID", "Test_Date"}, kw)

TestRecordCreate(kw) == TestRecordBase(kw)

\* mutant of AppointmentBase: the schema lacks the Speciality field
AppointmentBase_NoSpeciality(kw) ==
    BaseModel({"Doc_ID", "Appointment_Date"},
              [Patient_ID |-> NULL, Statusof |-> NULL, Typeof |-> NoStr,
               Notes |-> NoStr],
              {"Patient_ID", "Doc_ID", "Appointment_Date", "Statusof"}, kw)

\* mutant of AppointmentBase: Patient_ID has become a required field
AppointmentBase_PatientRequired(kw) ==
    BaseModel({"Doc_ID", "Appointment_Date", "Speciality", "Patient_ID"},
              [Statusof |-> NULL, Typeof |-> NoStr, Notes |-> NoStr],
              {"Patient_ID", "Doc_ID", "Appointment_Date", "Statusof"}, kw)

AppointmentBase(kw) ==
    BaseModel({"Doc_ID", "Appointment_Date", "Speciality"},
              [Patient_ID |-> NULL, Statusof |-> NULL, Typeof |-> NoStr,
               Notes |-> NoStr],
              {"Patient_ID", "Doc_ID", "Appointment_Date", "Statusof"}, kw)

\* AppointmentCreate adds the required fields Doctor_ID and Patient_ID
AppointmentCreate(kw) ==
    BaseModel({"Doc_ID", "Appointment_Date", "Speciality", "Doctor_ID",
               "Patient_ID"},
              [Statusof |-> NULL, Typeof |-> NoStr, Notes |-> NoStr],
              {"Patient_ID", "Doc_ID", "Doctor_ID", "Appointment_Date",
               "Statusof"}, kw)

MedicalHistoryBase(kw) ==
    BaseModel({"Patient_ID", "Doc_ID", "Record_Date"},
              [Diagnosis |-> NoStr, Treatment |-> NoStr],
              {"Patient_ID", "Doc_ID", "Record_Date"}, kw)

\* MedicalHistoryCreate adds the required field Doctor_ID
MedicalHistoryCreate(kw) ==
    BaseModel({"Patient_ID", "Doc_ID", "Record_Date", "Doctor_ID"},
              [Diagnosis |-> NoStr, Treatment |-> NoStr],
              {"Patient_ID", "Doc_ID", "Doctor_ID", "Record_Date"}, kw)

PrescriptionBase(kw) ==
    BaseModel({"Patient_ID", "Doctor_ID", "Date_Issued"}, [Notes |-> NoStr],
              {"Patient_ID", "Doctor_ID", "Date_Issued"}, kw)

PrescriptionCreate(kw) == PrescriptionBase(kw)

PrescriptionDetailBase(kw) ==
    BaseModel({"Prescription_ID", "Medication_Name", "Dosage", "Frequency",
               "Duration"}, NoDefaults, {"Prescription_ID"}, kw)

PrescriptionDetailCreate(kw) == PrescriptionDetailBase(kw)

-----------------------------------------------------------------------------
(* db_operator.py: patients *)

db_ops_get_patient(d, patient_id) == First(d, "Patients", patient_id)

db_ops_create_patient(d, idn, patient) ==
    LET db_patient == Construct("Patients", patient)
    IN IF db_patient = TypeError
       THEN Raised(d, "TypeError") @@ [ident |-> idn]
       ELSE AddCommit(d, idn, "Patients", db_patient)

db_ops_update_patient(d, patient_id, patient) ==
    LET db_patient == db_ops_get_patient(d, patient_id)
    IN IF db_patient # None
       THEN SetattrCommit(d, "Patients", patient_id, patient)
       ELSE Untouched(d, db_patient)

db_ops_delete_patient(d, patient_id) ==
    LET db_patient == db_ops_get_patient(d, patient_id)
    IN IF db_patient # None
       THEN DeleteCommit(d, "Patients", patient_id)
       ELSE Untouched(d, db_patient)

-----------------------------------------------------------------------------
(* db_operator.py: beds *)

db_ops_get_bed(d, bed_id) == First(d, "Beds", bed_id)

db_ops_get_available_bed(d) == All(d, "Beds", [Status |-> "Available"])

\* mutant of db_ops_get_occupied_bed: the filter compares with another spelling
db_ops_get_occupied_bed_Lowercase(d) == All(d, "Beds", [Status |-> "occupied"])

db_ops_get_occupied_bed(d) == All(d, "Beds", [Status |-> "Occupied"])

db_ops_update_bed(d, bed_id, bed) ==
    LET db_bed == db_ops_get_bed(d, bed_id)
    IN IF db_bed # None
       THEN SetattrCommit(d, "Beds", bed_id, bed)
       ELSE Untouched(d, db_bed)

-----------------------------------------------------------------------------
(* db_operator.py: doctors *)

\* mutant of db_ops_get_doctor: the query has lost its filter on Doc_ID
db_ops_get_doctor_NoFilter(d, doctor_id) ==
    IF DOMAIN d["Doctors"] = {} THEN None
    ELSE d["Doctors"][CHOOSE k \in DOMAIN d["Doctors"] :
                         \A j \in DOMAIN d["Doctors"] : k <= j]

db_ops_get_doctor(d, doctor_id) == First(d, "Doctors", doctor_id)

db_ops_create_doctor(d, idn, doctor) ==
    LET db_doctor == Construct("Doctors", doctor)
    IN IF db_doctor = TypeError
       THEN Raised(d, "TypeError") @@ [ident |-> idn]
       ELSE AddCommit(d, idn, "Doctors", db_doctor)

db_ops_update_doctor(d, doctor_id, doctor) ==
    LET db_doctor == db_ops_get_doctor(d, doctor_id)
    IN IF db_doctor # None
       THEN SetattrCommit(d, "Doctors", doctor_id, doctor)
       ELSE Untouched(d, db_doctor)

db_ops_delete_doctor(d, doctor_id) ==
    LET db_doctor == db_ops_get_doctor(d, doctor_id)
    IN IF db_doctor # None
       THEN DeleteCommit(d, "Doctors", doctor_id)
       ELSE Untouched(d, db_doctor)

-----------------------------------------------------------------------------
(* db_operator.py: staff *)

\* mutant of db_ops_get_staff_member: the query has lost its filter on Staff_ID
db_ops_get_staff_member_NoFilter(d, staff_id) ==
    IF DOMAIN d["Staff"] = {} THEN None
    ELSE d["Staff"][CHOOSE k \in DOMAIN d["Staff"] :
                       \A j \in DOMAIN d["Staff"] : k <= j]

db_ops_get_staff_member(d, staff_id) == First(d, "Staff", staff_id)

db_ops_create_staff(d, idn, staff) ==
    LET db_staff == Construct("Staff", staff)
    IN IF db_staff = TypeError
       THEN Raised(d, "TypeError") @@ [ident |-> idn]
       ELSE AddCommit(d, idn, "Staff", db_staff)

db_ops_update_staff(d, staff_id, staff) ==
    LET db_staff == db_ops_get_staff_member(d, staff_id)
    IN IF db_staff # None
       THEN SetattrCommit(d, "Staff", staff_id, staff)
       ELSE Untouched(d, db_staff)

db_ops_delete_staff(d, staff_id) ==
    LET db_staff == db_ops_get_staff_member(d, staff_id)
    IN IF db_staff # None
       THEN DeleteCommit(d, "Staff", staff_id)
       ELSE Untouched(d, db_staff)

-----------------------------------------------------------------------------
(* db_operator.py: staff shifts *)

db_ops_get_staff_shift(d, shift_id) == First(d, "StaffShifts", shift_id)

db_ops_create_staff_shift(d, idn, staff_shift) ==
    LET db_staff_shift == Construct("StaffShifts", staff_shift)
    IN IF db_staff_shift = TypeError
       THEN Raised(d, "TypeError") @@ [ident |-> idn]
       ELSE AddCommit(d, idn, "StaffShifts", db_staff_shift)

db_ops_update_staff_shift(d, shift_id, staff_shift) ==
    LET db_staff_shift == db_ops_get_staff_shift(d, shift_id)
    IN IF db_staff_shift # None
       THEN SetattrCommit(d, "StaffShifts", shift_id, staff_shift)
       ELSE Untouched(d, db_staff_shift)

db_ops_delete_staff_shift(d, shift_id) ==
    LET db_staff_shift == db_ops_get_staff_shift(d, shift_id)
    IN IF db_staff_shift # None
       THEN DeleteCommit(d, "StaffShifts", shift_id)
       ELSE Untouched(d, db_staff_shift)

-----------------------------------------------------------------------------
(* db_operator.py: test records *)

db_ops_get_test_record(d, record_id) == First(d, "Test_Records", record_id)

db_ops_create_test_record(d, idn, test_record) ==
    LET db_test_record == Construct("Test_Records", test_record)
    IN IF db_test_record = TypeError
       THEN Raised(d, "TypeError") @@ [ident |-> idn]
       ELSE AddCommit(d, idn, "Test_Records", db_test_record)

db_ops_update_test_record(d, record_id, test_record) ==
    LET db_test_record == db_ops_get_test_record(d, record_id)
    IN IF db_test_record # None
       THEN SetattrCommit(d, "Test_Records", record_id, test_record)
       ELSE Untouched(d, db_test_record)

db_ops_delete_test_record(d, record_id) ==
    LET db_test_record == db_ops_get_test_record(d, record_id)
    IN IF db_test_record # None
       THEN DeleteCommit(d, "Test_Records", record_id)
       ELSE Untouched(d, db_test_record)

-----------------------------------------------------------------------------
(* db_operator.py: appointments *)

db_ops_get_appointment(d, appointment_id) == First(d, "Appointments", appointment_id)

db_ops_create_appointment(d, idn, appointment) ==
    LET db_appointment == Construct("Appointments", appointment)
    IN IF db_appointment = TypeError
       THEN Raised(d, "TypeError") @@ [ident |-> idn]
       ELSE AddCommit(d, idn, "Appointments", db_appointment)

db_ops_update_appointment(d, appointment_id, appointment) ==
    LET db_appointment == db_ops_get_appointment(d, appointment_id)
    IN IF db_appointment # None
       THEN SetattrCommit(d, "Appointments", appointment_id, appointment)
       ELSE Untouched(d, db_appointment)

db_ops_delete_appointment(d, appointment_id) ==
    LET db_appointment == db_ops_get_appointment(d, appointment_id)
    IN IF db_appointment # None
       THEN DeleteCommit(d, "Appointments", appointment_id)
       ELSE Untouched(d, db_appointment)

-----------------------------------------------------------------------------
(* db_operator.py: medical history *)

db_ops_get_medical_history(d, history_id) == First(d, "MedicalHistory", history_id)

db_ops_create_medical_history(d, idn, history) ==
    LET db_history == Construct("MedicalHistory", history)
    IN IF db_history = TypeError
       THEN Raised(d, "TypeError") @@ [ident |-> idn]
       ELSE AddCommit(d, idn, "MedicalHistory", db_history)

db_ops_update_medical_history(d, history_id, history) ==
    LET db_history == db_ops_get_medical_history(d, history_id)
    IN IF db_history # None
       THEN SetattrCommit(d, "MedicalHistory", history_id, history)
       ELSE Untouched(d, db_history)

db_ops_delete_medical_history(d, history_id) ==
    LET db_history == db_ops_get_medical_history(d, history_id)
    IN IF db_history # None
       THEN DeleteCommit(d, "MedicalHistory", history_id)
       ELSE Untouched(d, db_history)

-----------------------------------------------------------------------------
(* db_operator.py: prescriptions and their details *)

db_ops_get_prescriptions_id(d, prescription_id) ==
    First(d, "Prescriptions", prescription_id)

\* mutant of db_ops_create_prescription: the row is flushed, not committed
db_ops_create_prescription_Flush(d, idn, prescription) ==
    LET db_prescription == Construct("Prescriptions", prescription)
    IN IF db_prescription = TypeError
       THEN Raised(d, "TypeError") @@ [ident |-> idn]
       ELSE [AddCommit(d, idn, "Prescriptions", db_prescription)
                EXCEPT !.db = d, !.commits = 0]

db_ops_create_prescription(d, idn, prescription) ==
    LET db_prescription == Construct("Prescriptions", prescription)
    IN IF db_prescription = TypeError
       THEN Raised(d, "TypeError") @@ [ident |-> idn]
       ELSE AddCommit(d, idn, "Prescriptions", db_prescription)

db_ops_update_prescription(d, prescription_id, prescription) ==
    LET db_prescription == db_ops_get_prescriptions_id(d, prescription_id)
    IN IF db_prescription # None
       THEN SetattrCommit(d, "Prescriptions", prescription_id, prescription)
       ELSE Untouched(d, db_prescription)

\* a text of more than 100 characters: Medication_Name is String(100), and
\* the database refuses the row at commit
Overlong == "overlong"

db_ops_create_prescription_detail(d, idn, prescriptiondetail) ==
    LET db_detail == Construct("Prescription_Details", prescriptiondetail)
    IN IF db_detail = TypeError
       THEN Raised(d, "TypeError") @@ [ident |-> idn]
       ELSE IF db_detail.Medication_Name = Overlong
            THEN Raised(d, "DataError") @@ [ident |-> idn]
            ELSE AddCommit(d, idn, "Prescription_Details", db_detail)

\* get_prescriptions_by(db, 'Prescription.Prescription_ID == value', value):
\* the join of the prescription with its doctor, its patient and its details
db_ops_get_prescriptions_by(d, value) ==
    {[Prescription_ID |-> value,
      Doc_Name |-> d["Doctors"][d["Prescriptions"][value].Doctor_ID].Doc_Name,
      Patient_Name |->
          d["Patients"][d["Prescriptions"][value].Patient_ID].Patient_Name,
      Medication_Name |-> d["Prescription_Details"][k].Medication_Name] :
        k \in {j \in DOMAIN d["Prescription_Details"] :
                  /\ value \in DOMAIN d["Prescriptions"]
                  /\ d["Prescription_Details"][j].Prescription_ID = value
                  /\ d["Prescriptions"][value].Doctor_ID \in DOMAIN d["Doctors"]
                  /\ d["Prescriptions"][value].Patient_ID \in DOMAIN d["Patients"]}}

\* the filter compares Prescription_ID; the set of the rows the call may return
db_ops_get_prescriptions_detail_id(d, prescriptiondetail_id) ==
    FirstOf(All(d, "Prescription_Details",
                [Prescription_ID |-> prescriptiondetail_id]))

\* the set of the outcomes the call may have
db_ops_update_prescription_detail(d, prescription_id, prescriptiondetail) ==
    {IF db_prescription_detail # None
     THEN SetattrCommit(d, "Prescription_Details",
                        db_prescription_detail.Detail_ID, prescriptiondetail)
     ELSE Untouched(d, db_prescription_detail) :
        db_prescription_detail \in
            db_ops_get_prescriptions_detail_id(d, prescription_id)}

-----------------------------------------------------------------------------
(* db_operator.py: notifications *)

\* a field that is not declared, such as Status, is ignored by the schema
NotificationCreate(kw) ==
    BaseModel({"Recipient_Type", "Recipient_ID", "Message"}, NoDefaults,
              {"Recipient_ID"}, kw)

\* mutant of db_ops_create_notification: the read time is set at creation
db_ops_create_notification_ReadAt(d, idn, notification) ==
    AddCommit(d, idn, "Notifications",
              Construct("Notifications",
                        [Recipient_Type |-> notification.Recipient_Type,
                         Recipient_ID |-> notification.Recipient_ID,
                         Message |-> notification.Message,
                         Status |-> "Unread", Created_At |-> now,
                         Read_At |-> now]))

db_ops_create_notification(d, idn, notification) ==
    LET db_notification ==
            Construct("Notifications",
                      [Recipient_Type |-> notification.Recipient_Type,
                       Recipient_ID |-> notification.Recipient_ID,
                       Message |-> notification.Message,
                       Status |-> "Unread", Created_At |-> now])
    IN AddCommit(d, idn, "Notifications", db_notification)

\* mutant of db_ops_mark_notification_as_read: marking a notification that
\* is Read makes it Unread again
db_ops_mark_notification_as_read_Toggle(d, notification_id) ==
    LET db_notification == First(d, "Notifications", notification_id)
    IN IF db_notification # None
       THEN IF db_notification.Status = "Read"
            THEN SetattrCommit(d, "Notifications", notification_id,
                               [Status |-> "Unread", Read_At |-> NULL])
            ELSE SetattrCommit(d, "Notifications", notification_id,
                               [Status |-> "Read", Read_At |-> now])
       ELSE Untouched(d, db_notification)

\* mutant of db_ops_mark_notification_as_read: a notification that is Read
\* keeps the time of its first reading
db_ops_mark_notification_as_read_Once(d, notification_id) ==
    LET db_notification == First(d, "Notifications", notification_id)
    IN IF db_notification # None
       THEN IF db_notification.Status = "Read"
            THEN Untouched(d, db_notification)
            ELSE SetattrCommit(d, "Notifications", notification_id,
                               [Status |-> "Read", Read_At |-> now])
       ELSE Untouched(d, db_notification)

db_ops_mark_notification_as_read(d, notification_id) ==
    LET db_notification == First(d, "Notifications", notification_id)
    IN IF db_notification # None
       THEN SetattrCommit(d, "Notifications", notification_id,
                          [Status |-> "Read", Read_At |-> now])
       ELSE Untouched(d, db_notification)

\* query.all() without ORDER BY hands the matching rows back as a list in
\* whichever order the database produces them: the lists that hold each row
\* of the set once
Lists(rows) ==
    {s \in [1..Cardinality(rows) -> rows] : {s[i] : i \in DOMAIN s} = rows}

\* mutant of db_ops_get_staff_shift_by_staff_id: the filter is left out
db_ops_get_staff_shift_by_staff_id_NoFilter(d, staff_id) ==
    Lists(All(d, "StaffShifts", <<>>))

\* the lists the call can return: filter(Staff_ID == staff_id).all()
db_ops_get_staff_shift_by_staff_id(d, staff_id) ==
    Lists(All(d, "StaffShifts", [Staff_ID |-> staff_id]))

\* the lists the call can return
db_ops_get_notifications_for_recipient(d, recipient_type, recipient_id) ==
    Lists(All(d, "Notifications", [Recipient_Type |-> recipient_type,
                                   Recipient_ID |-> recipient_id]))

-----------------------------------------------------------------------------
(* main_cli.py: the menu handlers.  A handler returns nothing; `printed` is *)
(* what its last print_table shows, `raised` the exception that ended it.   *)

Tick ==
    /\ now < MaxClock
    /\ now' = now + 1
    /\ UNCHANGED <<db, ident, ret>>

create_patient(name, email, record, phone, doc_id, staff_id) ==
    LET external_data == [Patient_Name |-> name, Patient_Records |-> record,
                          Phone_Num |-> phone, Email |-> email,
                          Doc_ID |-> doc_id, Staff_ID |-> staff_id]
        patient == PatientBase(external_data)
        r == db_ops_create_patient(db, ident, patient)
    IN /\ ident["Patients"] < MaxRows
       /\ IF patient = ValidationError
          THEN /\ ret' = [op |-> "create_patient", raised |-> "ValidationError",
                          printed |-> None]
               /\ UNCHANGED <<db, ident, now>>
          ELSE /\ db' = r.db
               /\ ident' = r.ident
               /\ ret' = [op |-> "create_patient", raised |-> r.raised,
                          printed |-> r.result]
               /\ UNCHANGED now

delete_patient(patient_id) ==
    LET r == db_ops_delete_patient(db, patient_id)
    IN /\ db' = r.db
       /\ ret' = [op |-> "delete_patient", patient_id |-> patient_id,
                  raised |-> r.raised, printed |-> r.result]
       /\ UNCHANGED <<ident, now>>

delete_doctor(doctor_id) ==
    LET r == db_ops_delete_doctor(db, doctor_id)
    IN /\ db' = r.db
       /\ ret' = [op |-> "delete_doctor", doctor_id |-> doctor_id,
                  raised |-> r.raised, printed |-> r.result]
       /\ UNCHANGED <<ident, now>>

delete_staff(staff_id) ==
    LET r == db_ops_delete_staff(db, staff_id)
    IN /\ db' = r.db
       /\ ret' = [op |-> "delete_staff", staff_id |-> staff_id,
                  raised |-> r.raised, printed |-> r.result]
       /\ UNCHANGED <<ident, now>>

create_prescriptions(patient_id, doc_id, note, medication, dosage, frequency, duration) ==
    LET external_data == [Patient_ID |-> patient_id, Doctor_ID |-> doc_id,
                          Date_Issued |-> strftime(now), Notes |-> note]
        r == db_ops_create_prescription(db, ident, PrescriptionBase(external_data))
        prescription == r.result
        call == [op |-> "create_prescriptions", patient_id |-> patient_id,
                 doc_id |-> doc_id, prescription |-> prescription]
    IN /\ ident["Prescriptions"] < MaxRows
       /\ IF r.raised # ""
          THEN /\ ret' = call @@ [raised |-> r.raised, printed |-> None]
               /\ UNCHANGED <<db, ident, now>>
          ELSE LET external_data2 ==
                       [Prescription_ID |-> prescription.Prescription_ID,
                        Medication_Name |-> medication, Dosage |-> dosage,
                        Frequency |-> frequency, Duration |-> duration]
                   r2 == db_ops_create_prescription_detail(
                             r.db, r.ident, PrescriptionDetailBase(external_data2))
               IN /\ db' = r2.db
                  /\ ident' = r2.ident
                  /\ ret' = call @@
                        [raised |-> r2.raised,
                         printed |-> IF r2.raised # "" THEN None
                                     ELSE db_ops_get_prescriptions_by(
                                              r2.db, prescription.Prescription_ID)]
                  /\ UNCHANGED now

get_staff_shift_by_staff_id(staff_id) ==
    \E results \in db_ops_get_staff_shift_by_staff_id(db, staff_id) :
        /\ ret' = [op |-> "get_staff_shift_by_staff_id", staff_id |-> staff_id,
                   raised |-> "", printed |-> results]
        /\ UNCHANGED <<db, ident, now>>

list_notification_doctor(doc_id) ==
    \E results \in db_ops_get_notifications_for_recipient(db, "Doctor", doc_id) :
        /\ ret' = [op |-> "list_notification", recipient_type |-> "Doctor",
                   recipient_id |-> doc_id, raised |-> "", printed |-> results]
        /\ UNCHANGED <<db, ident, now>>

list_notification_staff(staff_id) ==
    \E results \in db_ops_get_notifications_for_recipient(db, "Staff", staff_id) :
        /\ ret' = [op |-> "list_notification", recipient_type |-> "Staff",
                   recipient_id |-> staff_id, raised |-> "", printed |-> results]
        /\ UNCHANGED <<db, ident, now>>

list_notification_patient(patient_id) ==
    \E results \in db_ops_get_notifications_for_recipient(db, "Patient",
                                                          patient_id) :
        /\ ret' = [op |-> "list_notification", recipient_type |-> "Patient",
                   recipient_id |-> patient_id, raised |-> "",
                   printed |-> results]
        /\ UNCHANGED <<db, ident, now>>

\* what is typed at the prompts: texts, "" for an empty line
Range(typed) == {typed[i] : i \in DOMAIN typed}

Digits == 0..9

\* str.isdigit() and int() on the texts typed here, which have one character
\* or are not numbers
isdigit(s) == \E n \in Digits : ToString(n) = s

int(s) == CHOOSE n \in Digits : ToString(n) = s

\* a date typed in the format %Y-%m-%d %H:%M:%S is a reading of the clock;
\* a text that does not parse, the empty one included, is BLANK
is_valid_date(date_str) == date_str # BLANK

\* while True: x = input(...); if <x is valid>: break
\* the texts typed in turn are asked about until one is valid
Answered(typed, valid) == \E i \in DOMAIN typed : typed[i] \in valid

\* mutant of Prompt: the first text typed is taken without the test
Prompt_Unchecked(typed, valid) == typed[1]

Prompt(typed, valid) ==
    typed[CHOOSE i \in DOMAIN typed :
              /\ typed[i] \in valid
              /\ \A j \in 1..(i - 1) : typed[j] \notin valid]

\* mutant of StatusTexts: the loop lets a status of 5 pass
StatusTexts_UpTo5 ==
    {s \in {ToString(n) : n \in Digits} : int(s) >= 0 /\ int(s) <= 5}

\* the status loop of create_appointment and update_appointment
StatusTexts == {s \in {ToString(n) : n \in Digits} : int(s) >= 0 /\ int(s) <= 4}

TypeofTexts == {"Online", "Inperson"}

create_appointment(doc_ids, patient_ids, app_dates, statuses, typeofs, note) ==
    LET found_doctors == {x \in Range(doc_ids) :
                             db_ops_get_doctor(db, int(x)) # None}
        found_patients == {x \in Range(patient_ids) :
                              isdigit(x) /\ db_ops_get_patient(db, int(x)) # None}
        valid_dates == {x \in Range(app_dates) : is_valid_date(x)}
    IN /\ ident["Appointments"] < MaxRows
       /\ Answered(doc_ids, found_doctors)
       /\ Answered(patient_ids, found_patients)
       /\ Answered(app_dates, valid_dates)
       /\ Answered(statuses, StatusTexts)
       /\ Answered(typeofs, TypeofTexts)
       /\ LET doc_id == int(Prompt(doc_ids, found_doctors))
              doctor == db_ops_get_doctor(db, doc_id)
              patient_id == Prompt(patient_ids, found_patients)
              app_date == Prompt(app_dates, valid_dates)
              status == int(Prompt(statuses, StatusTexts))
              typeof == Prompt(typeofs, TypeofTexts)
              speciality == doctor.Speciality
              \* the schema turns the text of the patient id into a number
              external_data == [Patient_ID |-> int(patient_id), Doc_ID |-> doc_id,
                                Appointment_Date |-> app_date,
                                Statusof |-> status, Typeof |-> typeof,
                                Speciality |-> speciality, Notes |-> note]
              appointment == AppointmentBase(external_data)
              r == db_ops_create_appointment(db, ident, appointment)
          IN IF appointment = ValidationError
             THEN /\ ret' = [op |-> "create_appointment", doc_ids |-> doc_ids,
                             patient_ids |-> patient_ids, statuses |-> statuses,
                             raised |-> "ValidationError", printed |-> None]
                  /\ UNCHANGED <<db, ident, now>>
             ELSE /\ db' = r.db
                  /\ ident' = r.ident
                  /\ ret' = [op |-> "create_appointment", doc_ids |-> doc_ids,
                             patient_ids |-> patient_ids, statuses |-> statuses,
                             raised |-> r.raised, printed |-> r.result]
                  /\ UNCHANGED now

create_open_appointment(doc_ids, appo_dates) ==
    LET found_doctors == {x \in Range(doc_ids) :
                             db_ops_get_doctor(db, int(x)) # None}
        valid_dates == {x \in Range(appo_dates) : is_valid_date(x)}
    IN /\ ident["Appointments"] < MaxRows
       /\ Answered(doc_ids, found_doctors)
       /\ Answered(appo_dates, valid_dates)
       /\ LET doc_id == int(Prompt(doc_ids, found_doctors))
              doctor == db_ops_get_doctor(db, doc_id)
              speciality == doctor.Speciality
              appo_date == Prompt(appo_dates, valid_dates)
              status == 0
              external_data == [Doc_ID |-> doc_id, Appointment_Date |-> appo_date,
                                Speciality |-> speciality, Statusof |-> status]
              appointment == AppointmentBase(external_data)
              r == db_ops_create_appointment(db, ident, appointment)
          IN IF appointment = ValidationError
             THEN /\ ret' = [op |-> "create_open_appointment",
                             doc_ids |-> doc_ids,
                             raised |-> "ValidationError", printed |-> None]
                  /\ UNCHANGED <<db, ident, now>>
             ELSE /\ db' = r.db
                  /\ ident' = r.ident
                  /\ ret' = [op |-> "create_open_appointment",
                             doc_ids |-> doc_ids,
                             raised |-> r.raised, printed |-> r.result]
                  /\ UNCHANGED now

update_appointment(appointment_id, doc_id, patient_id, app_date, statuses, typeofs, note) ==
    LET appointment == db_ops_get_appointment(db, appointment_id)
    IN /\ Answered(statuses, StatusTexts)
       /\ Answered(typeofs, TypeofTexts)
       /\ IF appointment = None
          THEN \* appointment.Speciality on None
               /\ ret' = [op |-> "update_appointment",
                          appointment_id |-> appointment_id,
                          doc_id |-> doc_id, patient_id |-> patient_id,
                          statuses |-> statuses,
                          raised |-> "AttributeError", printed |-> None]
               /\ UNCHANGED <<db, ident, now>>
          ELSE LET status == int(Prompt(statuses, StatusTexts))
                   typeof == Prompt(typeofs, TypeofTexts)
                   speciality == appointment.Speciality
                   \* the schema turns the texts of the ids into numbers
                   external_data ==
                       [Doc_ID |-> IF doc_id = "" THEN appointment.Doc_ID
                                   ELSE int(doc_id),
                        Patient_ID |-> IF patient_id = ""
                                       THEN appointment.Patient_ID
                                       ELSE int(patient_id),
                        Statusof |-> status, Typeof |-> typeof,
                        Speciality |-> speciality,
                        Appointment_Date |-> IF app_date = BLANK
                                             THEN appointment.Appointment_Date
                                             ELSE app_date,
                        Notes |-> IF note = "" THEN appointment.Notes ELSE note]
                   schema == AppointmentBase(external_data)
                   r == db_ops_update_appointment(db, appointment_id, schema)
               IN IF schema = ValidationError
                  THEN /\ ret' = [op |-> "update_appointment",
                                  appointment_id |-> appointment_id,
                                  doc_id |-> doc_id, patient_id |-> patient_id,
                                  statuses |-> statuses,
                                  raised |-> "ValidationError", printed |-> None]
                       /\ UNCHANGED <<db, ident, now>>
                  ELSE /\ db' = r.db
                       /\ ret' = [op |-> "update_appointment",
                                  appointment_id |-> appointment_id,
                                  doc_id |-> doc_id, patient_id |-> patient_id,
                                  statuses |-> statuses, raised |-> r.raised,
                                  \* the status shown before the prompts
                                  was |-> appointment.Statusof,
                                  printed |-> db_ops_get_appointment(r.db,
                                                                appointment_id)]
                       /\ UNCHANGED <<ident, now>>

create_staff_shift(staff_ids, shift_starts, shift_ends) ==
    LET found_staff == {x \in Range(staff_ids) :
                           isdigit(x) /\ db_ops_get_staff_member(db, int(x)) # None}
        valid_starts == {x \in Range(shift_starts) : is_valid_date(x)}
        valid_ends == {x \in Range(shift_ends) : is_valid_date(x)}
    IN /\ ident["StaffShifts"] < MaxRows
       /\ Answered(staff_ids, found_staff)
       /\ Answered(shift_starts, valid_starts)
       /\ Answered(shift_ends, valid_ends)
       /\ LET staff_id == Prompt(staff_ids, found_staff)
              shift_start == Prompt(shift_starts, valid_starts)
              shift_end == Prompt(shift_ends, valid_ends)
              \* the schema turns the text of the staff id into a number
              external_data == [Staff_ID |-> int(staff_id),
                                Shift_Start |-> shift_start,
                                Shift_End |-> shift_end]
              staff_shift == StaffShiftBase(external_data)
              r == db_ops_create_staff_shift(db, ident, staff_shift)
          IN IF staff_shift = ValidationError
             THEN /\ ret' = [op |-> "create_staff_shift", staff_ids |-> staff_ids,
                             raised |-> "ValidationError", printed |-> None]
                  /\ UNCHANGED <<db, ident, now>>
             ELSE /\ db' = r.db
                  /\ ident' = r.ident
                  /\ ret' = [op |-> "create_staff_shift", staff_ids |-> staff_ids,
                             raised |-> r.raised, printed |-> r.result]
                  /\ UNCHANGED now

create_medical_history(doc_ids, patient_ids, diagnosis, treatment) ==
    LET found_doctors == {x \in Range(doc_ids) :
                             db_ops_get_doctor(db, int(x)) # None}
        found_patients == {x \in Range(patient_ids) :
                              isdigit(x) /\ db_ops_get_patient(db, int(x)) # None}
    IN /\ ident["MedicalHistory"] < MaxRows
       /\ Answered(doc_ids, found_doctors)
       /\ Answered(patient_ids, found_patients)
       /\ LET doc_id == int(Prompt(doc_ids, found_doctors))
              patient_id == Prompt(patient_ids, found_patients)
              record_date == strftime(now)
              \* the schema turns the text of the patient id into a number
              external_data == [Patient_ID |-> int(patient_id), Doc_ID |-> doc_id,
                                Record_Date |-> record_date,
                                Diagnosis |-> diagnosis, Treatment |-> treatment]
              history == MedicalHistoryBase(external_data)
              r == db_ops_create_medical_history(db, ident, history)
          IN IF history = ValidationError
             THEN /\ ret' = [op |-> "create_medical_history", doc_ids |-> doc_ids,
                             patient_ids |-> patient_ids,
                             raised |-> "ValidationError", printed |-> None]
                  /\ UNCHANGED <<db, ident, now>>
             ELSE /\ db' = r.db
                  /\ ident' = r.ident
                  /\ ret' = [op |-> "create_medical_history", doc_ids |-> doc_ids,
                             patient_ids |-> patient_ids,
                             raised |-> r.raised, printed |-> r.result]
                  /\ UNCHANGED now

\* doc_id and staff_id are the texts typed, "" for none; a schema field of
\* type int takes the text of a number as that number
update_patient(patient_id, name, record, phone, email, doc_id, staff_id) ==
    LET patient == db_ops_get_patient(db, patient_id)
        coerced(text) == IF isdigit(text) THEN int(text) ELSE BLANK
        call == [op |-> "update_patient", patient_id |-> patient_id,
                 name |-> name, record |-> record, phone |-> phone,
                 email |-> email, doc_id |-> doc_id, staff_id |-> staff_id]
    IN IF patient = None /\ "" \in {name, record, phone, email, doc_id, staff_id}
       THEN \* patient.Patient_Name on None
            /\ ret' = call @@ [raised |-> "AttributeError", printed |-> None]
            /\ UNCHANGED <<db, ident, now>>
       ELSE LET external_data ==
                    [Patient_Name |-> IF name = "" THEN patient.Patient_Name
                                      ELSE name,
                     Patient_Records |-> IF record = ""
                                         THEN patient.Patient_Records ELSE record,
                     Phone_Num |-> IF phone = "" THEN patient.Phone_Num ELSE phone,
                     Email |-> IF email = "" THEN patient.Email ELSE email,
                     Doc_ID |-> IF doc_id = "" THEN patient.Doc_ID
                                ELSE coerced(doc_id),
                     Staff_ID |-> IF staff_id = "" THEN patient.Staff_ID
                                  ELSE coerced(staff_id)]
                schema == PatientBase(external_data)
                r == db_ops_update_staff(db, external_data.Staff_ID, schema)
            IN IF schema = ValidationError
               THEN /\ ret' = call @@ [raised |-> "ValidationError",
                                       printed |-> None]
                    /\ UNCHANGED <<db, ident, now>>
               ELSE /\ db' = r.db
                    /\ ret' = call @@ [raised |-> r.raised,
                                       printed |-> r.result]
                    /\ UNCHANGED <<ident, now>>

update_doctor(doctor_id, name, phone, speciality, email) ==
    LET doctor == db_ops_get_doctor(db, doctor_id)
    IN IF doctor = None /\ "" \in {name, phone, speciality, email}
       THEN \* doctor.Doc_Name on None
            /\ ret' = [op |-> "update_doctor", doctor_id |-> doctor_id,
                       raised |-> "AttributeError", printed |-> None]
            /\ UNCHANGED <<db, ident, now>>
       ELSE LET external_data ==
                    [Doc_Name |-> IF name = "" THEN doctor.Doc_Name ELSE name,
                     Speciality |-> IF speciality = "" THEN doctor.Speciality
                                    ELSE speciality,
                     Phone_Num |-> IF phone = "" THEN doctor.Phone_Num ELSE phone,
                     Email |-> IF email = "" THEN doctor.Email ELSE email]
                r == db_ops_update_doctor(db, doctor_id, DoctorBase(external_data))
            IN /\ db' = r.db
               /\ ret' = [op |-> "update_doctor", doctor_id |-> doctor_id,
                          raised |-> r.raised, printed |-> r.result]
               /\ UNCHANGED <<ident, now>>

get_available_bed ==
    /\ ret' = [op |-> "get_available_bed", raised |-> "",
               printed |-> db_ops_get_available_bed(db)]
    /\ UNCHANGED <<db, ident, now>>

get_occupied_bed ==
    /\ ret' = [op |-> "get_occupied_bed", raised |-> "",
               printed |-> db_ops_get_occupied_bed(db)]
    /\ UNCHANGED <<db, ident, now>>

assigne_bed(bed_id, patient_id) ==
    LET bed == db_ops_get_bed(db, bed_id)
    IN IF bed = None
       THEN \* bed.Bed_ID on None
            /\ ret' = [op |-> "assigne_bed", bed_id |-> bed_id,
                       patient_id |-> patient_id, bed |-> bed,
                       raised |-> "AttributeError", printed |-> None]
            /\ UNCHANGED <<db, ident, now>>
       ELSE LET external_data == [Bed_ID |-> bed.Bed_ID, Ward_ID |-> bed.Ward_ID,
                                  Patient_ID |-> patient_id, Status |-> "Occupied",
                                  Assigned_Date |-> strftime(now)]
                r == db_ops_update_bed(db, bed_id, BedBase(external_data))
            IN /\ db' = r.db
               /\ ret' = [op |-> "assigne_bed", bed_id |-> bed_id,
                          patient_id |-> patient_id, bed |-> bed,
                          raised |-> r.raised,
                          printed |-> db_ops_get_bed(r.db, bed_id)]
               /\ UNCHANGED <<ident, now>>

release_bed(bed_id) ==
    LET bed == db_ops_get_bed(db, bed_id)
    IN IF bed = None
       THEN \* bed.Bed_ID on None
            /\ ret' = [op |-> "release_bed", bed_id |-> bed_id, bed |-> bed,
                       raised |-> "AttributeError", printed |-> None]
            /\ UNCHANGED <<db, ident, now>>
       ELSE LET external_data == [Bed_ID |-> bed.Bed_ID, Ward_ID |-> bed.Ward_ID,
                                  Patient_ID |-> NULL, Status |-> "Available",
                                  Assigned_Date |-> NULL]
                r == db_ops_update_bed(db, bed_id, BedBase(external_data))
            IN /\ db' = r.db
               /\ ret' = [op |-> "release_bed", bed_id |-> bed_id, bed |-> bed,
                          raised |-> r.raised,
                          printed |-> db_ops_get_bed(r.db, bed_id)]
               /\ UNCHANGED <<ident, now>>

-----------------------------------------------------------------------------
(* What the operator types *)

Names == {"A", "B"}
Emails == {"a@h.org"}
Texts == {"t"}
Phones == {"555"}

\* ids typed at a prompt: the ids a table can hold and one it never holds
IdInputs == 1..(MaxRows + 1)
BedIdInputs == 1..(NumBeds + 1)

-----------------------------------------------------------------------------
(* The bed management session: beds are provisioned Available, patients    *)
(* are registered at the patient menu, beds are assigned, released and     *)
(* listed at the bed menu.  No handler of this session reads a stored      *)
(* date, so the session is taken at one reading of the clock.              *)

EmptyTable == <<>>

ProvisionedBed(b) ==
    [Bed_ID |-> b, Ward_ID |-> 1, Patient_ID |-> NULL,
     Status |-> ColumnDefault("Beds", "Status"), Assigned_Date |-> NULL]

InitBed ==
    /\ db = [t \in TableNames |->
                IF t = "Beds" THEN [b \in 1..NumBeds |-> ProvisionedBed(b)]
                ELSE EmptyTable]
    /\ ident = [t \in TableNames |-> IF t = "Beds" THEN NumBeds ELSE 0]
    /\ now = 2
    /\ ret = [op |-> "start", raised |-> "", printed |-> None]

NextBed ==
    \/ \E name \in Names, email \in Emails, record \in Texts, phone \in Phones,
          doc_id \in {1, BLANK}, staff_id \in {1} :
          create_patient(name, email, record, phone, doc_id, staff_id)
    \/ get_available_bed
    \/ get_occupied_bed
    \/ \E bed_id \in BedIdInputs, patient_id \in IdInputs :
          assigne_bed(bed_id, patient_id)
    \/ \E bed_id \in BedIdInputs : release_bed(bed_id)

SpecBed == InitBed /\ [][NextBed]_vars

-----------------------------------------------------------------------------
(* Bed allocation workflow: claims C1 - C6, under SpecBed *)

Beds == db["Beds"]

BedRows == {Beds[b] : b \in DOMAIN Beds}

ExistingPatient(p) == p \in DOMAIN db["Patients"]

\* the state release is to leave a bed in
Released(bed) ==
    [Bed_ID |-> bed.Bed_ID, Ward_ID |-> bed.Ward_ID, Patient_ID |-> NULL,
     Status |-> "Available", Assigned_Date |-> NULL]

\* C1: in every state reached by assign and release from beds that are
\* Available with no patient and no assigned date, a bed is Occupied iff its
\* patient id and its assigned date are both set, and Available iff both are
\* null.
C1_BedStateInvariant ==
    \A bed \in BedRows :
        /\ (bed.Status = "Occupied") <=>
               (bed.Patient_ID # NULL /\ bed.Assigned_Date # NULL)
        /\ (bed.Status = "Available") <=>
               (bed.Patient_ID = NULL /\ bed.Assigned_Date = NULL)

\* C1 witness: a bed that was Occupied has just been released while another
\* bed is Occupied.
C1_Witness ==
    /\ ret.op = "release_bed"
    /\ ret.bed # None
    /\ ret.bed.Status = "Occupied"
    /\ \E bed \in BedRows : bed.Status = "Occupied"

\* C2: assign on an Occupied bed fails with InvalidState and leaves the bed as
\* it was; after assign(bed, A) succeeded, assign(bed, B) fails and the bed
\* still holds A.  Stated for registered patients A # B, so that the case does
\* not rest on the patient check.
C2_AssignOccupiedFails ==
    ( /\ ret.op = "assigne_bed"
      /\ ret.bed # None
      /\ ret.bed.Status = "Occupied"
      /\ ExistingPatient(ret.bed.Patient_ID)
      /\ ExistingPatient(ret.patient_id)
      /\ ret.patient_id # ret.bed.Patient_ID )
    => ( /\ ret.raised = "InvalidState"
         /\ Beds[ret.bed_id] = ret.bed )

\* C3: assign with a patient id that has no Patient record fails with
\* InvalidReference and leaves the bed's status, patient id and assigned date
\* unchanged.
C3_AssignUnknownPatientFails ==
    ( /\ ret.op = "assigne_bed"
      /\ ret.bed # None
      /\ ~ExistingPatient(ret.patient_id) )
    => ( /\ ret.raised = "InvalidReference"
         /\ Beds[ret.bed_id] = ret.bed )

\* C4: assign and release with a bed id that has no Bed record end with the
\* not-found outcome handed back to the caller (no exception other than a typed
\* NotFound), and nothing is changed.
C4_AbsentBedNotFound ==
    [][ ( /\ ret' # ret
          /\ ret'.op \in {"assigne_bed", "release_bed"}
          /\ ret'.bed = None )
        => ( /\ ret'.raised \in {"", "NotFound"}
             /\ db' = db ) ]_vars

\* C5: release on an existing bed, whatever its status, succeeds and leaves it
\* Available with patient id and assigned date null; released again, the bed
\* stays as the first release left it.
C5_ReleaseAlwaysAvailable ==
    ( /\ ret.op = "release_bed"
      /\ ret.bed # None )
    => ( /\ ret.raised = ""
         /\ Beds[ret.bed_id] = Released(ret.bed)
         /\ ret.printed = Released(ret.bed)
         /\ (ret.bed = Released(ret.bed) => Beds[ret.bed_id] = ret.bed) )

\* C5 witness: an Occupied bed has been released.
C5_Witness ==
    /\ ret.op = "release_bed"
    /\ ret.bed # None
    /\ ret.bed.Status = "Occupied"
    /\ ret.bed.Assigned_Date # NULL
    /\ ret.raised = ""

-----------------------------------------------------------------------------
(* The entity store session: a caller of db_operator.py builds a request    *)
(* schema and calls create, get, update and delete of one entity.           *)

\* the tables db_operator.py offers a create for, by primary key or (the
\* prescription details) by the prescription they belong to
StoreTables ==
    {"Doctors", "Staff", "StaffShifts", "Patients", "Test_Records",
     "Appointments", "MedicalHistory", "Prescriptions", "Prescription_Details"}

\* the tables db_operator.py offers a delete for
DeleteTables == StoreTables \ {"Prescriptions", "Prescription_Details"}

\* the schema classes of schemas.py by name
Schema(name, kw) ==
    CASE name = "DoctorCreate" -> DoctorCreate(kw)
      [] name = "StaffCreate" -> StaffCreate(kw)
      [] name = "StaffShiftCreate" -> StaffShiftCreate(kw)
      [] name = "PatientCreate" -> PatientCreate(kw)
      [] name = "TestRecordCreate" -> TestRecordCreate(kw)
      [] name = "AppointmentBase" -> AppointmentBase(kw)
      [] name = "AppointmentCreate" -> AppointmentCreate(kw)
      [] name = "MedicalHistoryBase" -> MedicalHistoryBase(kw)
      [] name = "MedicalHistoryCreate" -> MedicalHistoryCreate(kw)
      [] name = "PrescriptionCreate" -> PrescriptionCreate(kw)
      [] name = "PrescriptionDetailCreate" -> PrescriptionDetailCreate(kw)

\* the create, get, update and delete function of each table.  get and update
\* give the set of the outcomes the call may have.
db_ops_create(d, idn, t, obj) ==
    CASE t = "Doctors" -> db_ops_create_doctor(d, idn, obj)
      [] t = "Staff" -> db_ops_create_staff(d, idn, obj)
      [] t = "StaffShifts" -> db_ops_create_staff_shift(d, idn, obj)
      [] t = "Patients" -> db_ops_create_patient(d, idn, obj)
      [] t = "Test_Records" -> db_ops_create_test_record(d, idn, obj)
      [] t = "Appointments" -> db_ops_create_appointment(d, idn, obj)
      [] t = "MedicalHistory" -> db_ops_create_medical_history(d, idn, obj)
      [] t = "Prescriptions" -> db_ops_create_prescription(d, idn, obj)
      [] t = "Prescription_Details" -> db_ops_create_prescription_detail(d, idn, obj)

db_ops_get(d, t, id) ==
    CASE t = "Doctors" -> {db_ops_get_doctor(d, id)}
      [] t = "Staff" -> {db_ops_get_staff_member(d, id)}
      [] t = "StaffShifts" -> {db_ops_get_staff_shift(d, id)}
      [] t = "Patients" -> {db_ops_get_patient(d, id)}
      [] t = "Test_Records" -> {db_ops_get_test_record(d, id)}
      [] t = "Appointments" -> {db_ops_get_appointment(d, id)}
      [] t = "MedicalHistory" -> {db_ops_get_medical_history(d, id)}
      [] t = "Prescriptions" -> {db_ops_get_prescriptions_id(d, id)}
      [] t = "Prescription_Details" -> db_ops_get_prescriptions_detail_id(d, id)

db_ops_update(d, t, id, obj) ==
    CASE t = "Doctors" -> {db_ops_update_doctor(d, id, obj)}
      [] t = "Staff" -> {db_ops_update_staff(d, id, obj)}
      [] t = "StaffShifts" -> {db_ops_update_staff_shift(d, id, obj)}
      [] t = "Patients" -> {db_ops_update_patient(d, id, obj)}
      [] t = "Test_Records" -> {db_ops_update_test_record(d, id, obj)}
      [] t = "Appointments" -> {db_ops_update_appointment(d, id, obj)}
      [] t = "MedicalHistory" -> {db_ops_update_medical_history(d, id, obj)}
      [] t = "Prescriptions" -> {db_ops_update_prescription(d, id, obj)}
      [] t = "Prescription_Details" -> db_ops_update_prescription_detail(d, id, obj)

db_ops_delete(d, t, id) ==
    CASE t = "Doctors" -> db_ops_delete_doctor(d, id)
      [] t = "Staff" -> db_ops_delete_staff(d, id)
      [] t = "StaffShifts" -> db_ops_delete_staff_shift(d, id)
      [] t = "Patients" -> db_ops_delete_patient(d, id)
      [] t = "Test_Records" -> db_ops_delete_test_record(d, id)
      [] t = "Appointments" -> db_ops_delete_appointment(d, id)
      [] t = "MedicalHistory" -> db_ops_delete_medical_history(d, id)

\* the keyword arguments a caller builds a request from: for every table
\* one request with every field, one with the optional fields left out (or,
\* where every field is required, with other values) and one that lacks the
\* required fields
Requests ==
    [Doctors |->
        {[schema |-> "DoctorCreate",
          kw |-> [Doc_Name |-> "A", Speciality |-> "s", Phone_Num |-> "555",
                  Email |-> "a@h.org"]],
         [schema |-> "DoctorCreate",
          kw |-> [Doc_Name |-> "B", Speciality |-> "s", Email |-> "a@h.org"]],
         [schema |-> "DoctorCreate", kw |-> [Phone_Num |-> "555"]]},
     Staff |->
        {[schema |-> "StaffCreate",
          kw |-> [Name |-> "A", Department |-> "d", Email |-> "a@h.org",
                  Hire_Date |-> 2]],
         [schema |-> "StaffCreate",
          kw |-> [Name |-> "B", Department |-> "d", Email |-> "a@h.org",
                  Hire_Date |-> 4]],
         [schema |-> "StaffCreate", kw |-> [Name |-> "A"]]},
     StaffShifts |->
        {[schema |-> "StaffShiftCreate",
          kw |-> [Staff_ID |-> 1, Shift_Start |-> 2, Shift_End |-> 4]],
         [schema |-> "StaffShiftCreate",
          kw |-> [Staff_ID |-> 2, Shift_Start |-> 2, Shift_End |-> 4]],
         [schema |-> "StaffShiftCreate", kw |-> [Staff_ID |-> 1]]},
     Patients |->
        {[schema |-> "PatientCreate",
          kw |-> [Patient_Name |-> "A", Patient_Records |-> "t",
                  Phone_Num |-> "555", Email |-> "a@h.org", Doc_ID |-> 1,
                  Staff_ID |-> 1]],
         [schema |-> "PatientCreate",
          kw |-> [Patient_Name |-> "B", Patient_Records |-> "t",
                  Email |-> "a@h.org"]],
         [schema |-> "PatientCreate", kw |-> [Patient_Name |-> "A"]]},
     Test_Records |->
        {[schema |-> "TestRecordCreate",
          kw |-> [Patient_ID |-> 1, Record_Name |-> "A", Test_Date |-> 2,
                  Remarks |-> "t"]],
         [schema |-> "TestRecordCreate", kw |-> [Patient_ID |-> 2]],
         [schema |-> "TestRecordCreate", kw |-> [Record_Name |-> "A"]]},
     Appointments |->
        {[schema |-> "AppointmentBase",
          kw |-> [Patient_ID |-> 1, Doc_ID |-> 1, Appointment_Date |-> 2,
                  Statusof |-> 1, Typeof |-> "Online", Speciality |-> "s",
                  Notes |-> "t"]],
         [schema |-> "AppointmentBase",
          kw |-> [Doc_ID |-> 2, Appointment_Date |-> 4, Speciality |-> "s"]],
         [schema |-> "AppointmentCreate",
          kw |-> [Patient_ID |-> 1, Doc_ID |-> 1, Doctor_ID |-> 1,
                  Appointment_Date |-> 2, Speciality |-> "s"]],
         [schema |-> "AppointmentCreate", kw |-> [Doc_ID |-> 1]]},
     MedicalHistory |->
        {[schema |-> "MedicalHistoryBase",
          kw |-> [Patient_ID |-> 1, Doc_ID |-> 1, Diagnosis |-> "A",
                  Treatment |-> "t", Record_Date |-> 2]],
         [schema |-> "MedicalHistoryBase",
          kw |-> [Patient_ID |-> 2, Doc_ID |-> 1, Diagnosis |-> "B",
                  Record_Date |-> 4]],
         [schema |-> "MedicalHistoryCreate",
          kw |-> [Patient_ID |-> 1, Doc_ID |-> 1, Doctor_ID |-> 1,
                  Diagnosis |-> "A", Record_Date |-> 2]],
         [schema |-> "MedicalHistoryCreate", kw |-> [Doc_ID |-> 1]]},
     Prescriptions |->
        {[schema |-> "PrescriptionCreate",
          kw |-> [Patient_ID |-> 1, Doctor_ID |-> 1, Date_Issued |-> 2,
                  Notes |-> "t"]],
         [schema |-> "PrescriptionCreate",
          kw |-> [Patient_ID |-> 2, Doctor_ID |-> 1, Date_Issued |-> 4]],
         [schema |-> "PrescriptionCreate", kw |-> [Notes |-> "t"]]},
     Prescription_Details |->
        {[schema |-> "PrescriptionDetailCreate",
          kw |-> [Prescription_ID |-> 1, Medication_Name |-> "A",
                  Dosage |-> "t", Frequency |-> "t", Duration |-> "t"]],
         [schema |-> "PrescriptionDetailCreate",
          kw |-> [Prescription_ID |-> 2, Medication_Name |-> "B",
                  Dosage |-> "t", Frequency |-> "t", Duration |-> "t"]],
         [schema |-> "PrescriptionDetailCreate",
          kw |-> [Medication_Name |-> "A"]]}]

\* a session works on the table of one entity (as each test of
\* test_main_cli.py does): no other table has received a row
OneEntity(t) == \A u \in TableNames \ {t} : ident[u] = 0

call_create(t, request) ==
    LET obj == Schema(request.schema, request.kw)
        r == db_ops_create(db, ident, t, obj)
        call == [op |-> "create", t |-> t, schema |-> request.schema,
                 kw |-> request.kw, before |-> db[t]]
    IN /\ ident[t] < MaxRows
       /\ OneEntity(t)
       /\ IF obj = ValidationError
          THEN /\ ret' = call @@ [result |-> None, raised |-> "ValidationError",
                                  commits |-> 0]
               /\ UNCHANGED <<db, ident, now>>
          ELSE /\ db' = r.db
               /\ ident' = r.ident
               /\ ret' = call @@ [result |-> r.result, raised |-> r.raised,
                                  commits |-> r.commits]
               /\ UNCHANGED now

call_get(t, id) ==
    \E result \in db_ops_get(db, t, id) :
        /\ OneEntity(t)
        /\ ret' = [op |-> "get", t |-> t, id |-> id, before |-> db[t],
                   result |-> result, raised |-> "", commits |-> 0]
        /\ UNCHANGED <<db, ident, now>>

call_update(t, id, request) ==
    LET obj == Schema(request.schema, request.kw)
        call == [op |-> "update", t |-> t, id |-> id, schema |-> request.schema,
                 kw |-> request.kw, before |-> db[t]]
    IN /\ OneEntity(t)
       /\ IF obj = ValidationError
          THEN /\ ret' = call @@ [result |-> None, raised |-> "ValidationError",
                                  commits |-> 0]
               /\ UNCHANGED <<db, ident, now>>
          ELSE \E r \in db_ops_update(db, t, id, obj) :
                  /\ db' = r.db
                  /\ ret' = call @@ [result |-> r.result, raised |-> r.raised,
                                     commits |-> r.commits]
                  /\ UNCHANGED <<ident, now>>

call_delete(t, id) ==
    LET r == db_ops_delete(db, t, id)
    IN /\ OneEntity(t)
       /\ db' = r.db
       /\ ret' = [op |-> "delete", t |-> t, id |-> id, before |-> db[t],
                  result |-> r.result, raised |-> r.raised,
                  commits |-> r.commits]
       /\ UNCHANGED <<ident, now>>

InitStore ==
    /\ db = [t \in TableNames |-> EmptyTable]
    /\ ident = [t \in TableNames |-> 0]
    /\ now = 2
    /\ ret = [op |-> "start", raised |-> "", result |-> None]

NextStore ==
    \/ \E t \in StoreTables : \E request \in Requests[t] : call_create(t, request)
    \/ \E t \in StoreTables, id \in IdInputs : call_get(t, id)
    \/ \E t \in StoreTables, id \in IdInputs :
          \E request \in Requests[t] : call_update(t, id, request)
    \/ \E t \in DeleteTables, id \in IdInputs : call_delete(t, id)

SpecStore == InitStore /\ [][NextStore]_vars

-----------------------------------------------------------------------------
(* Entity store: claims C7 - C10, under SpecStore *)

\* Python's == between the value given for field f and the attribute read
\* back from column f: None equals None only, text never equals a number or
\* a datetime
Equal(f, given, read) ==
    LET givenNone == IF f \in StrFields THEN given = NoStr ELSE given = NULL
        readNone == IF f \in StringColumns THEN read = NoStr ELSE read = NULL
    IN IF givenNone \/ readNone
       THEN givenNone /\ readNone
       ELSE ((f \in StrFields) <=> (f \in StringColumns)) /\ given = read

\* the column the get and update functions of a table look a record up by
LookupColumn ==
    [t \in TableNames |->
        IF t = "Prescription_Details" THEN "Prescription_ID" ELSE PK[t]]

\* no record of table t in store d is found under id
Absent(d, t, id) ==
    \A k \in DOMAIN d[t] : d[t][k][LookupColumn[t]] # id

\* C7: for every entity type, the record returned by create carries the input
\* fields, and get called with the returned id yields a record whose fields
\* equal the input fields (the generated id and timestamps apart).
C7_CreateGetRoundTrip ==
    (ret.op = "create" /\ ret.raised = "")
    => LET t == ret.t
           created == ret.result
           fields == DOMAIN ret.kw \cap Columns[t]
       IN /\ \A f \in fields : Equal(f, ret.kw[f], created[f])
          /\ \A got \in db_ops_get(db, t, created[PK[t]]) :
                /\ got # None
                /\ \A f \in fields : Equal(f, ret.kw[f], got[f])

\* C8: update on an existing record replaces each supplied field with the
\* supplied value and leaves the record's id and every omitted field at its
\* prior value, for every field of every entity.
C8_UpdateKeepsOmittedFields ==
    (ret.op = "update" /\ ret.raised = "" /\ ret.result # None)
    => LET t == ret.t
           new == ret.result
           id == new[PK[t]]
           old == ret.before[id]
       IN /\ db[t][id] = new
          /\ \A c \in Columns[t] \ {PK[t]} :
                IF c \in DOMAIN ret.kw
                THEN Equal(c, ret.kw[c], new[c])
                ELSE new[c] = old[c]

-----------------------------------------------------------------------------
(* The discharge session: the database holds doctors, staff and patients   *)
(* together with the rows that refer to them, and records are deleted at   *)
(* the doctor, staff and patient menus.                                    *)

\* the rows the database holds for the i-th doctor, staff member and patient
StoredRows(i) ==
    [Doctors |-> [Doc_ID |-> i, Doc_Name |-> "A", Speciality |-> "s",
                  Phone_Num |-> "555", Email |-> "a@h.org"],
     Staff |-> [Staff_ID |-> i, Name |-> "A", Department |-> "d",
                Email |-> "a@h.org", Hire_Date |-> 2],
     StaffShifts |-> [Shift_ID |-> i, Staff_ID |-> i, Shift_Start |-> 2,
                      Shift_End |-> ColumnValue("Shift_End", 4)],
     Patients |-> [Patient_ID |-> i, Patient_Name |-> "A",
                   Patient_Records |-> "t", Phone_Num |-> "555",
                   Email |-> "a@h.org", Doc_ID |-> i, Staff_ID |-> i],
     Test_Records |-> [Record_ID |-> i, Patient_ID |-> i, Record_Name |-> "A",
                       Test_Date |-> 2, Remarks |-> "t"],
     Appointments |-> [Appointment_ID |-> i, Patient_ID |-> i, Doc_ID |-> i,
                       Appointment_Date |-> 2,
                       Statusof |-> ColumnValue("Statusof", 1),
                       Typeof |-> "Online", Speciality |-> "s", Notes |-> "t"],
     MedicalHistory |-> [History_ID |-> i, Patient_ID |-> i, Doc_ID |-> i,
                         Diagnosis |-> "A", Treatment |-> "t",
                         Record_Date |-> 2],
     Beds |-> [Bed_ID |-> i, Ward_ID |-> 1, Patient_ID |-> i,
               Status |-> "Occupied", Assigned_Date |-> 2],
     Prescriptions |-> [Prescription_ID |-> i, Patient_ID |-> i,
                        Doctor_ID |-> i, Date_Issued |-> 2, Notes |-> "t"],
     Prescription_Details |-> [Detail_ID |-> i, Prescription_ID |-> i,
                               Medication_Name |-> "A", Dosage |-> "t",
                               Frequency |-> "t", Duration |-> "t"]]

InitDelete ==
    /\ db = [t \in TableNames |->
                IF t = "Notifications" THEN EmptyTable
                ELSE [i \in 1..MaxRows |-> StoredRows(i)[t]]]
    /\ ident = [t \in TableNames |-> IF t = "Notifications" THEN 0 ELSE MaxRows]
    /\ now = 2
    /\ ret = [op |-> "start", raised |-> "", printed |-> None]

NextDelete ==
    \/ \E doctor_id \in IdInputs : delete_doctor(doctor_id)
    \/ \E staff_id \in IdInputs : delete_staff(staff_id)
    \/ \E patient_id \in IdInputs : delete_patient(patient_id)

SpecDelete == InitDelete /\ [][NextDelete]_vars

-----------------------------------------------------------------------------
(* Deleting a parent record: claim C11, under SpecDelete *)

\* the table and the id a delete handler was called on
Deleted(r) ==
    CASE r.op = "delete_doctor" -> [t |-> "Doctors", id |-> r.doctor_id]
      [] r.op = "delete_staff" -> [t |-> "Staff", id |-> r.staff_id]
      [] r.op = "delete_patient" -> [t |-> "Patients", id |-> r.patient_id]

\* C11: deleting a Doctor, Patient or Staff record that exists succeeds while
\* dependents exist, and every row of every other table is left as it was, so
\* that each dependent still holds the id of the deleted record.
C11_DeleteLeavesDependents ==
    [][ ( /\ ret' # ret
          /\ ret'.op \in {"delete_doctor", "delete_staff", "delete_patient"}
          /\ Deleted(ret').id \in DOMAIN db[Deleted(ret').t] )
        => LET t == Deleted(ret').t
               id == Deleted(ret').id
           IN /\ ret'.raised = ""
              /\ id \notin DOMAIN db'[t]
              /\ \A u \in TableNames \ {t} : db'[u] = db[u] ]_vars

-----------------------------------------------------------------------------
(* The booking session: doctors and patients are on record, appointments   *)
(* are created at the appointment menu, with a patient or as open slots.   *)

\* the ids typed at a prompt, as texts
IdTexts == {ToString(i) : i \in IdInputs}

\* an id no table holds
AbsentIdText == ToString(MaxRows + 1)

\* what is typed at a prompt that asks again: one answer, or an answer after
\* one that is turned down
TypedIds == {<<x>> : x \in IdTexts} \cup {<<AbsentIdText, x>> : x \in IdTexts}

TypedPatientIds == TypedIds \cup {<<"x", "1">>, <<"", "1">>}

TypedDates == {<<2>>, <<BLANK, 2>>}

InitAppointment ==
    /\ db = [t \in TableNames |->
                IF t \in {"Doctors", "Patients"}
                THEN [i \in 1..MaxRows |-> StoredRows(i)[t]]
                ELSE EmptyTable]
    /\ ident = [t \in TableNames |->
                   IF t \in {"Doctors", "Patients"} THEN MaxRows ELSE 0]
    /\ now = 2
    /\ ret = [op |-> "start", raised |-> "", printed |-> None]

NextAppointment ==
    \/ \E doc_ids \in TypedIds, patient_ids \in TypedPatientIds,
          app_dates \in TypedDates :
           create_appointment(doc_ids, patient_ids, app_dates, <<"1">>,
                              <<"Online">>, "t")
    \/ \E doc_ids \in TypedIds, appo_dates \in TypedDates :
           create_open_appointment(doc_ids, appo_dates)

SpecAppointment == InitAppointment /\ [][NextAppointment]_vars

-----------------------------------------------------------------------------
(* Creating appointments: claims C12 and C13, under SpecAppointment *)

\* the appointments a step has added
Created == DOMAIN db'["Appointments"] \ DOMAIN db["Appointments"]

\* C12: an appointment is created only for a doctor that exists and, unless it
\* is an open appointment, for a patient that exists: the appointment a create
\* step stores names an existing doctor, and its patient is null or exists;
\* only the open appointment is stored without a patient.
C12_CreatedAppointmentRefersToExisting ==
    [][ \A a \in Created :
            LET row == db'["Appointments"][a]
            IN /\ row.Doc_ID \in DOMAIN db["Doctors"]
               /\ row.Doc_ID \in DOMAIN db'["Doctors"]
               /\ \/ row.Patient_ID = NULL
                  \/ /\ row.Patient_ID \in DOMAIN db["Patients"]
                     /\ row.Patient_ID \in DOMAIN db'["Patients"]
               /\ ret'.op = "create_appointment" => row.Patient_ID # NULL ]_vars

\* an appointment was stored after an absent doctor id and an absent patient
\* id had been typed and turned down
C12_Witness ==
    /\ ret.op = "create_appointment"
    /\ ret.printed # None
    /\ Len(ret.doc_ids) = 2 /\ ret.doc_ids[1] = AbsentIdText
    /\ Len(ret.patient_ids) = 2 /\ ret.patient_ids[1] = AbsentIdText
    /\ ret.printed.Appointment_ID \in DOMAIN db["Appointments"]

\* C13: creating an open appointment for an existing doctor succeeds and stores
\* an appointment with no patient and with status Open (0).
C13_OpenAppointmentIsOpen ==
    [][ (ret' # ret /\ ret'.op = "create_open_appointment")
        => /\ ret'.raised = ""
           /\ Created # {}
           /\ \A a \in Created :
                 /\ db'["Appointments"][a].Patient_ID = NULL
                 /\ db'["Appointments"][a].Statusof = "0"
                 /\ db'["Appointments"][a].Doc_ID \in DOMAIN db'["Doctors"] ]_vars

C13_Witness ==
    /\ ret.op = "create_open_appointment"
    /\ ret.printed # None
    /\ ret.printed.Patient_ID = NULL
    /\ ret.printed.Statusof = "0"
    /\ ret.printed.Appointment_ID \in DOMAIN db["Appointments"]

-----------------------------------------------------------------------------
(* The session of a changing staff: appointments are created and moved     *)
(* from doctor to doctor while the doctors' records are edited.            *)

Specialities == {"s", "u"}

InitSpeciality == InitAppointment

NextSpeciality ==
    \/ \E doc_id \in IdTexts :
           create_appointment(<<doc_id>>, <<"1">>, <<2>>, <<"1">>, <<"Online">>,
                              "t")
    \/ \E appointment_id \in IdInputs, doc_id \in IdTexts \cup {""} :
           update_appointment(appointment_id, doc_id, "", BLANK, <<"1">>,
                              <<"Online">>, "")
    \/ \E doctor_id \in IdInputs, speciality \in Specialities \cup {""} :
           update_doctor(doctor_id, "", "", speciality, "")

SpecSpeciality == InitSpeciality /\ [][NextSpeciality]_vars

-----------------------------------------------------------------------------
(* The speciality of an appointment: claim C14, under SpecSpeciality *)

\* C14: an appointment is stored with the speciality its doctor has when it is
\* created, and no later step changes it: not an update of the appointment,
\* also one that names another doctor, and not an update of the doctor.
C14_SpecialityIsSnapshot ==
    [][ /\ \A a \in Created :
              db'["Appointments"][a].Speciality =
                  db["Doctors"][db'["Appointments"][a].Doc_ID].Speciality
        /\ \A a \in DOMAIN db["Appointments"] :
              /\ a \in DOMAIN db'["Appointments"]
              /\ db'["Appointments"][a].Speciality = db["Appointments"][a].Speciality
      ]_vars

\* an appointment has been moved to a doctor whose speciality is not the one
\* the appointment holds
C14_Witness ==
    /\ ret.op = "update_appointment"
    /\ ret.raised = ""
    /\ ret.doc_id # ""
    /\ ret.printed # None
    /\ ret.printed.Doc_ID \in DOMAIN db["Doctors"]
    /\ ret.printed.Speciality # db["Doctors"][ret.printed.Doc_ID].Speciality
    /\ \E d \in DOMAIN db["Doctors"] :
          /\ d # ret.printed.Doc_ID
          /\ db["Doctors"][d].Speciality # StoredRows(d)["Doctors"].Speciality

-----------------------------------------------------------------------------
(* The session of a day's appointments: appointments are created and their *)
(* status is set again and again.                                          *)

\* what is typed at the status prompt: a status, or a status after a text
\* that is turned down
TypedStatuses ==
    {<<s>> : s \in StatusTexts}
        \cup {<<"5", "0">>, <<"-1", "3">>, <<"x", "1">>, <<"", "2">>}

InitStatus == InitAppointment

NextStatus ==
    \/ \E statuses \in {<<"2">>, <<"7", "1">>} :
           create_appointment(<<"1">>, <<"1">>, <<2>>, statuses, <<"Online">>,
                              "t")
    \/ create_open_appointment(<<"1">>, <<2>>)
    \/ \E appointment_id \in IdInputs, statuses \in TypedStatuses :
           update_appointment(appointment_id, "", "", BLANK, statuses,
                              <<"Online">>, "")

SpecStatus == InitStatus /\ [][NextStatus]_vars

-----------------------------------------------------------------------------
(* The status of an appointment: claim C15, under SpecStatus *)

\* the status values 0..4 as the Statusof column holds them
StatusValues == {"0", "1", "2", "3", "4"}

\* C15: an update of an existing appointment stores the first status typed
\* that is one of 0..4, whatever status the appointment has, and the texts
\* typed before it, which are not, are not stored; no create or update step
\* leaves a stored status outside 0..4.
C15_AnyStatusInRangeAccepted ==
    [][ /\ \A a \in DOMAIN db'["Appointments"] :
              db'["Appointments"][a].Statusof \in StatusValues
        /\ ( /\ ret' # ret
             /\ ret'.op = "update_appointment"
             /\ ret'.appointment_id \in DOMAIN db["Appointments"] )
           => /\ ret'.raised = ""
              /\ \E i \in DOMAIN ret'.statuses :
                    /\ ret'.statuses[i] \in StatusValues
                    /\ \A j \in 1..(i - 1) : ret'.statuses[j] \notin StatusValues
                    /\ db'["Appointments"][ret'.appointment_id].Statusof =
                           ret'.statuses[i]
      ]_vars

\* a Completed appointment has been set to Open, after a status of 5 was typed
\* and turned down
C15_Witness ==
    /\ ret.op = "update_appointment"
    /\ ret.raised = ""
    /\ ret.was = "2"
    /\ ret.statuses = <<"5", "0">>
    /\ db["Appointments"][ret.appointment_id].Statusof = "0"

-----------------------------------------------------------------------------
(* The rebooking session: a stored appointment is moved to other doctors   *)
(* and patients at the appointment menu.                                   *)

InitReference ==
    /\ db = [t \in TableNames |->
                IF t \in {"Doctors", "Patients"}
                THEN [i \in 1..MaxRows |-> StoredRows(i)[t]]
                ELSE IF t = "Appointments"
                     THEN [i \in {1} |-> StoredRows(i)[t]]
                     ELSE EmptyTable]
    /\ ident = [t \in TableNames |->
                   IF t \in {"Doctors", "Patients"} THEN MaxRows
                   ELSE IF t = "Appointments" THEN 1 ELSE 0]
    /\ now = 2
    /\ ret = [op |-> "start", raised |-> "", printed |-> None]

NextReference ==
    \E appointment_id \in IdInputs, doc_id, patient_id \in IdTexts \cup {""} :
        update_appointment(appointment_id, doc_id, patient_id, BLANK, <<"1">>,
                           <<"Online">>, "")

SpecReference == InitReference /\ [][NextReference]_vars

-----------------------------------------------------------------------------
(* References of an updated appointment: claim C16, under SpecReference *)

\* C16: an update of an existing appointment that sets the doctor id or the
\* patient id to an id under which no record exists fails with
\* InvalidReference and leaves the appointment, and the database, as it was.
C16_UpdateToAbsentReferenceFails ==
    [][ ( /\ ret' # ret
          /\ ret'.op = "update_appointment"
          /\ ret'.appointment_id \in DOMAIN db["Appointments"]
          /\ \/ /\ ret'.doc_id # ""
                /\ int(ret'.doc_id) \notin DOMAIN db["Doctors"]
             \/ /\ ret'.patient_id # ""
                /\ int(ret'.patient_id) \notin DOMAIN db["Patients"] )
        => /\ ret'.raised = "InvalidReference"
           /\ db' = db ]_vars

-----------------------------------------------------------------------------
(* The record keeping session: doctors, staff and patients are on record,  *)
(* shifts are entered at the staff shift menu and medical history at the   *)
(* medical history menu.                                                   *)

InitRecords ==
    /\ db = [t \in TableNames |->
                IF t \in {"Doctors", "Staff", "Patients"}
                THEN [i \in 1..MaxRows |-> StoredRows(i)[t]]
                ELSE EmptyTable]
    /\ ident = [t \in TableNames |->
                   IF t \in {"Doctors", "Staff", "Patients"} THEN MaxRows ELSE 0]
    /\ now = 2
    /\ ret = [op |-> "start", raised |-> "", printed |-> None]

NextRecords ==
    \/ \E staff_ids \in TypedPatientIds :
           create_staff_shift(staff_ids, <<BLANK, 2>>, <<4>>)
    \/ \E doc_ids \in TypedIds,
          patient_ids \in {<<"1">>, <<AbsentIdText, "1">>, <<"x", "1">>} :
           create_medical_history(doc_ids, patient_ids, "A", "t")

SpecRecords == InitRecords /\ [][NextRecords]_vars

-----------------------------------------------------------------------------
(* References of shifts and medical history: claim C17, under SpecRecords *)

\* the rows of table t a step has added
CreatedIn(t) == DOMAIN db'[t] \ DOMAIN db[t]

\* C17: a staff shift is stored only for a staff member that exists, a medical
\* history entry only for a doctor and a patient that exist; a step stores at
\* most one row, and none that names a missing record.
C17_RecordsReferToExisting ==
    [][ /\ \A k \in CreatedIn("StaffShifts") :
              /\ db'["StaffShifts"][k].Staff_ID \in DOMAIN db["Staff"]
              /\ ret'.op = "create_staff_shift"
        /\ \A k \in CreatedIn("MedicalHistory") :
              /\ db'["MedicalHistory"][k].Doc_ID \in DOMAIN db["Doctors"]
              /\ db'["MedicalHistory"][k].Patient_ID \in DOMAIN db["Patients"]
              /\ ret'.op = "create_medical_history"
        /\ Cardinality(CreatedIn("StaffShifts") \cup CreatedIn("MedicalHistory")) <= 1
        /\ db'["Staff"] = db["Staff"]
        /\ db'["Doctors"] = db["Doctors"]
        /\ db'["Patients"] = db["Patients"]
      ]_vars

\* a shift and a medical history entry are stored, the entry after an absent
\* doctor id and an absent patient id were typed and turned down
C17_Witness ==
    /\ ret.op = "create_medical_history"
    /\ ret.printed # None
    /\ ret.doc_ids[1] = AbsentIdText /\ Len(ret.doc_ids) = 2
    /\ ret.patient_ids[1] = AbsentIdText /\ Len(ret.patient_ids) = 2
    /\ ret.printed.History_ID \in DOMAIN db["MedicalHistory"]
    /\ db["StaffShifts"] # EmptyTable

-----------------------------------------------------------------------------
(* The notification session: a caller of db_operator.py creates            *)
(* notifications and marks them as read while the clock advances.          *)

\* what a caller passes to NotificationCreate: the fields of the schema, the
\* same with a Status the schema does not declare, and a call without Message
NotificationRequests ==
    {[Recipient_Type |-> "Doctor", Recipient_ID |-> id, Message |-> "t"] :
        id \in {1, MaxRows + 1}}
    \cup {[Recipient_Type |-> "Doctor", Recipient_ID |-> MaxRows + 1,
           Message |-> "t", Status |-> "Read"],
          [Recipient_Type |-> "Patient", Recipient_ID |-> 1, Message |-> "t"],
          [Recipient_Type |-> "Doctor", Recipient_ID |-> 1]}

call_create_notification(kw) ==
    LET notification == NotificationCreate(kw)
        r == db_ops_create_notification(db, ident, notification)
    IN /\ ident["Notifications"] < MaxRows
       /\ IF notification = ValidationError
          THEN /\ ret' = [op |-> "create_notification", kw |-> kw,
                          result |-> None, raised |-> "ValidationError"]
               /\ UNCHANGED <<db, ident, now>>
          ELSE /\ db' = r.db
               /\ ident' = r.ident
               /\ ret' = [op |-> "create_notification", kw |-> kw,
                          result |-> r.result, raised |-> r.raised]
               /\ UNCHANGED now

call_mark_notification_as_read(notification_id) ==
    LET r == db_ops_mark_notification_as_read(db, notification_id)
    IN /\ db' = r.db
       /\ ret' = [op |-> "mark_notification_as_read",
                  notification_id |-> notification_id,
                  was |-> First(db, "Notifications", notification_id),
                  result |-> r.result, raised |-> r.raised]
       /\ UNCHANGED <<ident, now>>

InitNotification ==
    /\ db = [t \in TableNames |->
                IF t = "Doctors"
                THEN [i \in 1..MaxRows |-> StoredRows(i)[t]]
                ELSE EmptyTable]
    /\ ident = [t \in TableNames |-> IF t = "Doctors" THEN MaxRows ELSE 0]
    /\ now = 2
    /\ ret = [op |-> "start", raised |-> "", result |-> None]

NextNotification ==
    \/ Tick
    \/ \E kw \in {r \in NotificationRequests : r.Recipient_Type = "Doctor"} :
           call_create_notification(kw)
    \/ \E notification_id \in IdInputs :
           call_mark_notification_as_read(notification_id)

SpecNotification == InitNotification /\ [][NextNotification]_vars

\* the same at one reading of the clock, with the notifications of a
\* recipient listed at the menus
NextInbox ==
    \/ \E kw \in NotificationRequests : call_create_notification(kw)
    \/ \E doc_id \in IdInputs : list_notification_doctor(doc_id)
    \/ \E staff_id \in IdInputs : list_notification_staff(staff_id)
    \/ \E patient_id \in IdInputs : list_notification_patient(patient_id)

SpecInbox == InitNotification /\ [][NextInbox]_vars

-----------------------------------------------------------------------------
(* Creating and reading notifications: claims C18 and C19, under            *)
(* SpecNotification                                                        *)

\* C18: a notification created from a recipient type, a recipient id and a
\* message is stored with status Unread, with the current time as its creation
\* time and without a read time, whatever status the caller passes along, and
\* also for a recipient that does not exist.
C18_CreatedNotificationIsUnread ==
    [][ ( /\ ret' # ret
          /\ ret'.op = "create_notification"
          /\ {"Recipient_Type", "Recipient_ID", "Message"} \subseteq DOMAIN ret'.kw )
        => /\ ret'.raised = ""
           /\ Cardinality(CreatedIn("Notifications")) = 1
           /\ \A k \in CreatedIn("Notifications") :
                 /\ db'["Notifications"][k].Status = "Unread"
                 /\ db'["Notifications"][k].Created_At = now
                 /\ db'["Notifications"][k].Read_At = NULL
                 /\ db'["Notifications"][k].Recipient_ID = ret'.kw.Recipient_ID
                 /\ db'["Notifications"][k].Recipient_Type = ret'.kw.Recipient_Type
                 /\ db'["Notifications"][k].Message = ret'.kw.Message
                 /\ ret'.result = db'["Notifications"][k] ]_vars

\* a notification was created for a doctor that does not exist by a caller
\* that passed the status Read
C18_Witness ==
    /\ ret.op = "create_notification"
    /\ ret.raised = ""
    /\ "Status" \in DOMAIN ret.kw
    /\ ret.kw.Status = "Read"
    /\ ret.kw.Recipient_ID \notin DOMAIN db["Doctors"]
    /\ ret.result # None
    /\ ret.result.Notification_ID \in DOMAIN db["Notifications"]
    /\ db["Notifications"][ret.result.Notification_ID].Status = "Unread"

\* C19: marking an existing notification as read sets its status to Read and
\* its read time to the current time, also when it is Read already, and leaves
\* the rest as it was; marking an id under which no notification exists
\* returns None and changes nothing.
C19_MarkReadSetsReadAt ==
    [][ ( /\ ret' # ret
          /\ ret'.op = "mark_notification_as_read" )
        => LET id == ret'.notification_id
           IN IF id \in DOMAIN db["Notifications"]
              THEN /\ ret'.raised = ""
                   /\ db' = [db EXCEPT !["Notifications"][id] =
                                [@ EXCEPT !.Status = "Read", !.Read_At = now]]
                   /\ ret'.result = db'["Notifications"][id]
              ELSE /\ ret'.raised = ""
                   /\ ret'.result = None
                   /\ db' = db ]_vars

\* a notification read at one time has been marked as read again at a later
\* time and holds the later time
C19_Witness ==
    /\ ret.op = "mark_notification_as_read"
    /\ ret.was # None
    /\ ret.was.Status = "Read"
    /\ ret.notification_id \in DOMAIN db["Notifications"]
    /\ db["Notifications"][ret.notification_id].Status = "Read"
    /\ db["Notifications"][ret.notification_id].Read_At = now
    /\ ret.was.Read_At < now

-----------------------------------------------------------------------------
(* Listing notifications: claim C20, under SpecInbox *)

\* C20: listing the notifications of a recipient shows exactly the stored
\* notifications with that recipient type and recipient id, each once, in the
\* order of their creation, and changes no record.
C20_ListingInCreationOrder ==
    [][ ( /\ ret' # ret
          /\ ret'.op = "list_notification" )
        => LET matching == {k \in DOMAIN db["Notifications"] :
                               /\ db["Notifications"][k].Recipient_Type =
                                      ret'.recipient_type
                               /\ db["Notifications"][k].Recipient_ID =
                                      ret'.recipient_id}
               results == ret'.printed
           IN /\ db' = db
              /\ Len(results) = Cardinality(matching)
              /\ {results[i].Notification_ID : i \in DOMAIN results} = matching
              /\ \A i \in DOMAIN results :
                    results[i] = db["Notifications"][results[i].Notification_ID]
              /\ \A i, j \in DOMAIN results :
                    i < j => results[i].Notification_ID < results[j].Notification_ID
      ]_vars

-----------------------------------------------------------------------------
(* The prescribing session: doctors and patients are on record and         *)
(* prescriptions are written at the doctor menu.                           *)

NextPrescription ==
    \E patient_id \in IdInputs, doc_id \in 1..MaxRows,
       medication \in {"A", Overlong} :
        create_prescriptions(patient_id, doc_id, "t", medication, "t", "t", "t")

SpecPrescription == InitAppointment /\ [][NextPrescription]_vars

-----------------------------------------------------------------------------
(* The two rows of a prescription: claim C21, under SpecPrescription *)

\* the details stored for prescription p
DetailsOf(d, p) ==
    {k \in DOMAIN d["Prescription_Details"] :
        d["Prescription_Details"][k].Prescription_ID = p}

\* C21: when the write of the detail fails after the prescription was
\* written, the prescription stays committed: the step leaves one new
\* prescription that has no detail, and the exception leaves the handler.
C21_HeaderStaysWithoutDetail ==
    [][ ( /\ ret' # ret
          /\ ret'.op = "create_prescriptions"
          /\ ret'.raised = "DataError" )
        => /\ Cardinality(CreatedIn("Prescriptions")) = 1
           /\ \A p \in CreatedIn("Prescriptions") :
                 /\ ret'.prescription = db'["Prescriptions"][p]
                 /\ DetailsOf(db', p) = {}
           /\ \A p \in DOMAIN db["Prescriptions"] :
                 /\ p \in DOMAIN db'["Prescriptions"]
                 /\ db'["Prescriptions"][p] = db["Prescriptions"][p]
           /\ db'["Prescription_Details"] = db["Prescription_Details"] ]_vars

\* a prescription is stored that has no detail, beside one that has
C21_Witness ==
    /\ ret.op = "create_prescriptions"
    /\ ret.raised = "DataError"
    /\ \E p \in DOMAIN db["Prescriptions"] :
          /\ ret.prescription.Prescription_ID = p
          /\ DetailsOf(db, p) = {}
    /\ \E q \in DOMAIN db["Prescriptions"] : DetailsOf(db, q) # {}

-----------------------------------------------------------------------------
(* Failed operations and the menu loop: claim C22, under SpecBed.  The     *)
(* menu calls a handler as a plain function (FunctionItem(text, func,      *)
(* [db_session]) in create_crud_menu) and main_cli.py has no try around a  *)
(* handler: the loop goes on only when the handler returns.                *)

\* C22: no failure of a menu operation is fatal: an operation that fails
\* (absent id, missing reference, rejected write, malformed value) hands
\* control back to the menu loop that called it, so no exception leaves
\* the handler.
C22_FailedOperationReturnsToMenu ==
    ret.op \in {"assigne_bed", "release_bed", "create_patient"}
        => ret.raised = ""

-----------------------------------------------------------------------------
(* The session of the writes.  get_db_cli hands one Session to the whole   *)
(* menu; a write of db_operator.py commits on it and has no except and no  *)
(* rollback of its own, so after a commit that the database refused the    *)
(* Session stays inactive until someone calls rollback(), and the only     *)
(* rollback is the one get_db_cli does when the with block is left.        *)
(* ret.session is the state of that Session.                               *)

DetailRequests ==
    {[Prescription_ID |-> p, Medication_Name |-> m, Dosage |-> "t",
      Frequency |-> "t", Duration |-> "t"] :
        p \in IdInputs, m \in {"A", "B", Overlong}}
    \cup {[Prescription_ID |-> 1, Medication_Name |-> "A"]}

call_create_prescription_detail(kw) ==
    LET prescriptiondetail == PrescriptionDetailBase(kw)
        r == db_ops_create_prescription_detail(db, ident, prescriptiondetail)
        call == [op |-> "create_prescription_detail", kw |-> kw]
    IN /\ ident["Prescription_Details"] < MaxRows
       /\ IF prescriptiondetail = ValidationError
          THEN /\ ret' = call @@ [raised |-> "ValidationError", commits |-> 0,
                                  session |-> ret.session]
               /\ UNCHANGED <<db, ident, now>>
          ELSE IF ret.session = "inactive"
          THEN /\ ret' = call @@ [raised |-> "PendingRollbackError",
                                  commits |-> 0, session |-> "inactive"]
               /\ UNCHANGED <<db, ident, now>>
          ELSE /\ db' = r.db
               /\ ident' = r.ident
               /\ ret' = call @@
                     [raised |-> r.raised, commits |-> r.commits,
                      session |-> IF r.raised = "DataError" THEN "inactive"
                                  ELSE "active"]
               /\ UNCHANGED now

\* the with block of get_db_cli is left (the menu is closed) and entered
\* again: commit or rollback, close, and a new Session
get_db_cli ==
    /\ ret.op # "get_db_cli"
    /\ ret' = [op |-> "get_db_cli", kw |-> None, raised |-> "", commits |-> 0,
               session |-> "active"]
    /\ UNCHANGED <<db, ident, now>>

InitTransaction ==
    /\ db = [t \in TableNames |->
                IF t \in {"Doctors", "Patients", "Prescriptions"}
                THEN [i \in 1..MaxRows |-> StoredRows(i)[t]]
                ELSE EmptyTable]
    /\ ident = [t \in TableNames |->
                   IF t \in {"Doctors", "Patients", "Prescriptions"}
                   THEN MaxRows ELSE 0]
    /\ now = 2
    /\ ret = [op |-> "get_db_cli", kw |-> None, raised |-> "", commits |-> 0,
              session |-> "active"]

NextTransaction ==
    \/ \E kw \in DetailRequests : call_create_prescription_detail(kw)
    \/ get_db_cli

SpecTransaction == InitTransaction /\ [][NextTransaction]_vars

-----------------------------------------------------------------------------
(* A write as one transaction: claim C23, under SpecTransaction *)

\* C23: every write of the entity store is one transaction: when it
\* returns, exactly its one mutation is committed; when it raises, the store
\* is as before the operation and the session is clean, so that the next
\* operation on the same session starts from a committed state.
C23_WriteIsOneTransaction ==
    [][ ( /\ ret' # ret
          /\ ret'.op = "create_prescription_detail" )
        => IF ret'.raised = ""
           THEN /\ ret'.commits = 1
                /\ Cardinality(CreatedIn("Prescription_Details")) = 1
                /\ \A k \in DOMAIN db["Prescription_Details"] :
                      /\ k \in DOMAIN db'["Prescription_Details"]
                      /\ db'["Prescription_Details"][k]
                            = db["Prescription_Details"][k]
                /\ \A t \in TableNames \ {"Prescription_Details"} :
                      db'[t] = db[t]
           ELSE /\ db' = db
                /\ ret'.session = "active" ]_vars

-----------------------------------------------------------------------------
(* The shifts of a staff member: shifts are entered at the staff menu and  *)
(* listed by staff id.                                                     *)

NextShift ==
    \/ \E staff_ids \in TypedPatientIds, shift_start \in {2, 3} :
           create_staff_shift(staff_ids, <<shift_start>>, <<4>>)
    \/ \E staff_id \in IdInputs : get_staff_shift_by_staff_id(staff_id)

SpecShift == InitRecords /\ [][NextShift]_vars

-----------------------------------------------------------------------------
(* The listing by staff id: claim C24, under SpecShift *)

-----------------------------------------------------------------------------
(* login/loginclass.py: LoginSystem over the users table of login.db.  In  *)
(* the specifications of the login, db.users holds the rows of that table  *)
(* (id, username, password, role) and ident.users the last id given.  A    *)
(* str is a string here and a Python tuple a sequence.                     *)

\* hashlib.sha256(password.encode()).hexdigest()
hash_password(password) == "sha256:" \o password

Welcome(username) == "Welcome, " \o username \o "!"

\* the rows SELECT * ... WHERE username = ? AND password = ? finds
Users(d, username, hashed_password) ==
    {k \in DOMAIN d.users : /\ d.users[k].username = username
                            /\ d.users[k].password = hashed_password}

\* mutant of login_user: the password is not part of the WHERE clause
login_user_AnyPassword(d, username, password) ==
    LET found == {k \in DOMAIN d.users : d.users[k].username = username}
    IN IF found # {}
       THEN <<Welcome(username), d.users[CHOOSE k \in found : TRUE].role>>
       ELSE <<"Error: Invalid username or password.", NoStr>>

\* the tuple (message, role) it returns; NoStr is the role None
login_user(d, username, password) ==
    LET found == Users(d, username, hash_password(password))
    IN IF found # {}
       THEN <<Welcome(username), d.users[CHOOSE k \in found : TRUE].role>>
       ELSE <<"Error: Invalid username or password.", NoStr>>

\* Python's == of a tuple and a str: values of different types are not equal
TupleEqualsStr(tuple, str) == FALSE

register_user(username, password, role) ==
    LET hashed_password == hash_password(password)
        call == [op |-> "register_user", username |-> username,
                 password |-> password, role |-> role]
    IN /\ ident.users < MaxRows
       /\ IF role \notin {"admin", "doctor", "staff"}
          THEN /\ ret' = call @@ [result |-> "Error: Role is invalid."]
               /\ UNCHANGED <<db, ident, now>>
          ELSE IF \E k \in DOMAIN db.users : db.users[k].username = username
          THEN /\ ret' = call @@ [result |-> "Error: Username is already taken."]
               /\ UNCHANGED <<db, ident, now>>
          ELSE /\ db' = [db EXCEPT !.users = Append(@,
                            [id |-> ident.users + 1, username |-> username,
                             password |-> hashed_password, role |-> role])]
               /\ ident' = [ident EXCEPT !.users = @ + 1]
               /\ ret' = call @@ [result |-> "User successfully registered!"]
               /\ UNCHANGED now

call_login_user(username, password) ==
    /\ ret' = [op |-> "login_user", username |-> username,
               password |-> password,
               result |-> login_user(db, username, password)]
    /\ UNCHANGED <<db, ident, now>>

change_password(username, old_password, new_password) ==
    LET call == [op |-> "change_password", username |-> username,
                 password |-> old_password, new_password |-> new_password]
    IN IF TupleEqualsStr(login_user(db, username, old_password),
                         Welcome(username))
       THEN /\ db' = [db EXCEPT !.users =
                        [k \in DOMAIN @ |->
                            IF @[k].username = username
                            THEN [@[k] EXCEPT !.password =
                                     hash_password(new_password)]
                            ELSE @[k]]]
            /\ ret' = call @@ [result |-> "Password successfully updated!"]
            /\ UNCHANGED <<ident, now>>
       ELSE /\ ret' = call @@ [result |-> "Error: Old password is incorrect."]
            /\ UNCHANGED <<db, ident, now>>

Usernames == {"ann", "bob"}
Passwords == {"p", "q"}

InitPassword ==
    /\ db = [users |-> <<>>]
    /\ ident = [users |-> 0]
    /\ now = 2
    /\ ret = [op |-> "start", username |-> "", password |-> "", result |-> ""]

NextPassword ==
    \/ \E username \in Usernames, password \in Passwords,
          role \in {"admin", "staff", "nurse"} :
           register_user(username, password, role)
    \/ \E username \in Usernames, password \in Passwords :
           call_login_user(username, password)
    \/ \E username \in Usernames, old_password \in Passwords,
          new_password \in Passwords :
           change_password(username, old_password, new_password)

SpecPassword == InitPassword /\ [][NextPassword]_vars

-----------------------------------------------------------------------------
(* The change of a password: claim C25, under SpecPassword *)

\* C25: change_password with the user's present password stores new_password:
\* after it login succeeds with new_password, and fails with old_password
\* when the two differ; with a wrong old_password it returns an error and
\* the stored passwords are as before.
C25_ChangePasswordChanges ==
    [][ ( /\ ret' # ret
          /\ ret'.op = "change_password"
          /\ \E k \in DOMAIN db.users : db.users[k].username = ret'.username )
        => IF login_user(db, ret'.username, ret'.password)[2] # NoStr
           THEN /\ login_user(db', ret'.username, ret'.new_password)[2] # NoStr
                /\ ret'.new_password # ret'.password
                      => login_user(db', ret'.username, ret'.password)[2] = NoStr
           ELSE /\ ret'.result = "Error: Old password is incorrect."
                /\ db' = db ]_vars

-----------------------------------------------------------------------------
(* main_cli.py: the login interface.  main() shows a menu of two items,    *)
(* login and patient_login; the menus of the entity operations are built   *)
(* by create_main_menu and create_patient_menu, which only these two call. *)
(* ret.menu is the menu that is shown: "login", "staff" (the main menu of  *)
(* the staff) or "patient".                                                *)

login(username, password) ==
    LET role == login_user(db, username, password)[2]
    IN /\ ret.menu = "login"
       /\ ret' = [op |-> "login", username |-> username,
                  password |-> password, raised |-> "", printed |-> None,
                  menu |-> IF role # NoStr THEN "staff" ELSE "login"]
       /\ UNCHANGED <<db, ident, now>>

\* userid is the text typed; the database compares it with Patient_ID as a
\* number
patient_login(userid) ==
    LET patient == db_ops_get_patient(db, int(userid))
    IN /\ ret.menu = "login"
       /\ isdigit(userid)
       /\ ret' = [op |-> "patient_login", userid |-> userid, raised |-> "",
                  printed |-> IF patient = None
                              THEN "Error: Invalid Patient ID"
                              ELSE "Welcome, " \o patient.Patient_Name,
                  menu |-> IF patient = None THEN "login" ELSE "patient"]
       /\ UNCHANGED <<db, ident, now>>

\* an item of the Test Record submenu, which both menus hold
get_test_record(records_id) ==
    /\ ret.menu \in {"staff", "patient"}
    /\ ret' = [op |-> "get_test_record", records_id |-> records_id,
               raised |-> "", menu |-> ret.menu,
               printed |-> db_ops_get_test_record(db, records_id)]
    /\ UNCHANGED <<db, ident, now>>

\* the exit item of the menu: main_menu.show() returns, the with block of
\* get_db_cli ends and the login interface is shown again
exit_menu ==
    /\ ret.menu \in {"staff", "patient"}
    /\ ret' = [op |-> "exit", raised |-> "", printed |-> None,
               menu |-> "login"]
    /\ UNCHANGED <<db, ident, now>>

\* the users table after some registrations
Registered ==
    {u \in UNION {[1..n -> [id : 1..MaxRows, username : Usernames,
                            password : {hash_password(p) : p \in Passwords},
                            role : {"admin", "staff"}]] : n \in 0..MaxRows} :
        \A i, j \in DOMAIN u : /\ u[i].id = i
                               /\ u[i].username = u[j].username => i = j}

InitLogin ==
    /\ \E u \in Registered, n \in 0..MaxRows :
          /\ db = [users |-> u,
                   Patients |-> [i \in 1..n |-> StoredRows(i)["Patients"]],
                   Test_Records |->
                       [i \in 1..n |-> StoredRows(i)["Test_Records"]]]
          /\ ident = [users |-> Len(u), Patients |-> n, Test_Records |-> n]
    /\ now = 2
    /\ ret = [op |-> "start", raised |-> "", printed |-> None,
              menu |-> "login"]

NextLogin ==
    \/ \E username \in Usernames, password \in Passwords :
           login(username, password)
    \/ \E userid \in IdTexts : patient_login(userid)
    \/ \E records_id \in IdInputs : get_test_record(records_id)
    \/ exit_menu

SpecLogin == InitLogin /\ [][NextLogin]_vars

-----------------------------------------------------------------------------
(* Menus behind the login: claim C26, under SpecLogin *)

\* C26: the staff main menu is entered only by a login whose username and
\* password login_user found, giving a role, the patient menu only by a
\* patient login whose id is the id of a stored patient; a login that fails
\* stays at the login interface, and an entity operation runs only from a
\* menu that was entered.
C26_MenusOnlyAfterLogin ==
    [][ /\ ( ret'.menu = "staff" /\ ret.menu # "staff" )
            => /\ ret'.op = "login"
               /\ \E k \in DOMAIN db.users :
                     /\ db.users[k].username = ret'.username
                     /\ db.users[k].password = hash_password(ret'.password)
        /\ ( ret'.menu = "patient" /\ ret.menu # "patient" )
            => /\ ret'.op = "patient_login"
               /\ \E k \in DOMAIN db.Patients :
                     ToString(db.Patients[k].Patient_ID) = ret'.userid
        /\ ( /\ ret' # ret
             /\ ret'.op = "login"
             /\ ~\E k \in DOMAIN db.users :
                     /\ db.users[k].username = ret'.username
                     /\ db.users[k].password = hash_password(ret'.password) )
            => ret'.menu = "login"
        /\ ( ret' # ret /\ ret'.op = "get_test_record" )
            => ret.menu \in {"staff", "patient"} ]_vars

\* an entity operation has run in the staff menu
C26_Witness ==
    /\ ret.op = "get_test_record"
    /\ ret.menu = "staff"
    /\ ret.printed # None

-----------------------------------------------------------------------------
(* The patient menu item "update": doctors, staff and patients are on      *)
(* record and a patient's record is updated.                               *)

NextPatient ==
    \E patient_id \in IdInputs, name \in {"", "B"}, email \in {"", "b@h.org"},
       staff_id \in {"", "1", "2", AbsentIdText, "x"} :
        update_patient(patient_id, name, "", "", email, "", staff_id)

SpecPatient == InitRecords /\ [][NextPatient]_vars

-----------------------------------------------------------------------------
(* The update of a patient's record: claim C27, under SpecPatient *)

\* C27: the menu operation that updates a patient's record, given the id of
\* a stored patient and new values that the schema accepts, changes the
\* Patient row of that id to the new values (a field left empty keeps its
\* value) and changes no Staff row and no other Patient row.
C27_UpdatePatientChangesThePatient ==
    [][ ( /\ ret' # ret
          /\ ret'.op = "update_patient"
          /\ ret'.patient_id \in DOMAIN db["Patients"]
          /\ ret'.raised = "" )
        => /\ db'["Patients"][ret'.patient_id].Patient_Name
                 = IF ret'.name = ""
                   THEN db["Patients"][ret'.patient_id].Patient_Name
                   ELSE ret'.name
           /\ db'["Patients"][ret'.patient_id].Email
                 = IF ret'.email = ""
                   THEN db["Patients"][ret'.patient_id].Email
                   ELSE ret'.email
           /\ \A k \in DOMAIN db["Patients"] \ {ret'.patient_id} :
                 db'["Patients"][k] = db["Patients"][k]
           /\ db'["Staff"] = db["Staff"] ]_vars

-----------------------------------------------------------------------------
(* One bed per patient: claim C28, under SpecBed *)

\* C28: in every state reached by assign and release operations no patient
\* is the occupant of more than one bed: two distinct Occupied beds have
\* different patient ids.
C28_OnePatientOneBed ==
    \A b1, b2 \in DOMAIN db["Beds"] :
        ( /\ b1 # b2
          /\ db["Beds"][b1].Status = "Occupied"
          /\ db["Beds"][b2].Status = "Occupied" )
        => db["Beds"][b1].Patient_ID # db["Beds"][b2].Patient_ID

-----------------------------------------------------------------------------
(* Appointments without a patient: claim C29, under SpecStatus *)

\* C29: in every state reached by creating appointments, creating open
\* appointments and updating appointments, an appointment whose patient id
\* is null has the status Open (0).
C29_NoPatientMeansOpen ==
    \A k \in DOMAIN db["Appointments"] :
        db["Appointments"][k].Patient_ID = NULL
            => db["Appointments"][k].Statusof = ColumnValue("Statusof", 0)

-----------------------------------------------------------------------------
(* The life of a notification: claim C30, under SpecNotification *)

\* C30: in every state reached by creating notifications and marking them as
\* read, a notification is Read if and only if its read time is set; a
\* notification that is Read is never Unread again; and marking as read
\* leaves the recipient type, the recipient id, the message and the creation
\* time of every notification as they were.
C30_ReadIsForGood ==
    [][ /\ \A k \in DOMAIN db'["Notifications"] :
              /\ db'["Notifications"][k].Status \in {"Unread", "Read"}
              /\ (db'["Notifications"][k].Status = "Read")
                    <=> (db'["Notifications"][k].Read_At # NULL)
        /\ \A k \in DOMAIN db["Notifications"] :
              /\ k \in DOMAIN db'["Notifications"]
              /\ db["Notifications"][k].Status = "Read"
                    => db'["Notifications"][k].Status = "Read"
        /\ ( ret' # ret /\ ret'.op = "mark_notification_as_read" )
              => \A k \in DOMAIN db["Notifications"] :
                    \A c \in {"Recipient_Type", "Recipient_ID", "Message",
                              "Created_At"} :
                        db'["Notifications"][k][c] = db["Notifications"][k][c]
      ]_vars

\* an Unread notification created at an earlier time has been marked as read
\* while another notification stays Unread
C30_Witness ==
    /\ ret.op = "mark_notification_as_read"
    /\ ret.was # None
    /\ ret.was.Status = "Unread"
    /\ ret.was.Created_At < now
    /\ db["Notifications"][ret.notification_id].Status = "Read"
    /\ db["Notifications"][ret.notification_id].Created_At = ret.was.Created_At
    /\ \E k \in DOMAIN db["Notifications"] :
          db["Notifications"][k].Status = "Unread"

====
